---- MODULE Spec2Model ----
(***************************************************************************)
(* Qleaner: leftover detection for uninstalled applications (src/app.py),  *)
(* the scan jobs of the web front ends (src/app.py, src/web.py) and the    *)
(* interactive cleaner (src/mac.py).                                       *)
(*                                                                         *)
(* File and folder names, bundle identifiers and skip-list entries are     *)
(* sequences of one-character strings, so that lower-casing, prefix and    *)
(* substring tests and splitting on "." are computed as Python computes    *)
(* them.                                                                   *)
(***************************************************************************)
EXTENDS Integers, Sequences, FiniteSets, TLC

(***************************************************************************)
(* Bounds of the model.                                                    *)
(***************************************************************************)
\* Artifacts enumerated in one location during one detector run.
MaxListing == 2

\* Start requests (POST /api/scan/leftovers) received in one behaviour.
MaxRequests == 2

(***************************************************************************)
(* Strings.                                                                *)
(***************************************************************************)
UpperCase == <<"A", "B", "C", "D", "E", "F", "G", "H", "I", "J", "K", "L", "M", "N", "O", "P", "Q", "R", "S", "T", "U", "V", "W", "X", "Y", "Z">>

LowerCase == <<"a", "b", "c", "d", "e", "f", "g", "h", "i", "j", "k", "l", "m", "n", "o", "p", "q", "r", "s", "t", "u", "v", "w", "x", "y", "z">>

\* str.lower() on one character.
LowerChar(c) ==
    IF \E i \in 1..Len(UpperCase) : UpperCase[i] = c
    THEN LowerCase[CHOOSE i \in 1..Len(UpperCase) : UpperCase[i] = c]
    ELSE c

\* str.lower()
Lower(s) == [i \in 1..Len(s) |-> LowerChar(s[i])]

\* Python's "t in s" on strings.
IsSubstr(t, s) ==
    \E i \in 0..(Len(s) - Len(t)) : SubSeq(s, i + 1, i + Len(t)) = t

\* s.startswith(p)
StartsWith(s, p) == Len(p) <= Len(s) /\ SubSeq(s, 1, Len(p)) = p

\* s.endswith(p)
EndsWith(s, p) == Len(p) <= Len(s) /\ SubSeq(s, Len(s) - Len(p) + 1, Len(s)) = p

\* Positions of "." in s.
DotsOf(s) == {i \in 1..Len(s) : s[i] = "."}

Max(S) == CHOOSE x \in S : \A y \in S : y <= x

Min(S) == CHOOSE x \in S : \A y \in S : x <= y

\* s.split('.'): the sequence of the dot-separated parts.
RECURSIVE Split(_)
Split(s) ==
    IF DotsOf(s) = {} THEN <<s>>
    ELSE LET i == Min(DotsOf(s))
         IN  <<SubSeq(s, 1, i - 1)>> \o Split(SubSeq(s, i + 1, Len(s)))

\* s.split('.', 1): at most one split, at the first dot.
SplitOnce(s) ==
    IF DotsOf(s) = {} THEN <<s>>
    ELSE LET i == Min(DotsOf(s))
         IN  <<SubSeq(s, 1, i - 1), SubSeq(s, i + 1, Len(s))>>

\* pathlib's PurePath.stem: the name without its last suffix.
Stem(name) ==
    IF DotsOf(name) = {} THEN name
    ELSE LET i == Max(DotsOf(name))
         IN  IF 1 < i /\ i < Len(name) THEN SubSeq(name, 1, i - 1) ELSE name

DotPlist == <<".", "p", "l", "i", "s", "t">>

\* Path.glob('*.plist') keeps the entries whose name ends in ".plist".
MatchesPlistGlob(name) == EndsWith(name, DotPlist)

(***************************************************************************)
(* Skip lists of the detectors.                                            *)
(***************************************************************************)
PrefSkipPrefixes ==
    <<
       <<"c", "o", "m", ".", "a", "p", "p", "l", "e", ".">>,
       <<"o", "r", "g", ".", "p", "y", "t", "h", "o", "n", ".">>,
       <<"c", "o", "m", ".", "g", "i", "t", "h", "u", "b", ".">>,
       <<"l", "o", "g", "i", "n", "w", "i", "n", "d", "o", "w">>,
       <<"p", "b", "s">>,
       <<"s", "y", "s", "t", "e", "m", "s", "o", "u", "n", "d", "s", "e", "r", "v", "e", "r", "d">>,
       <<"C", "o", "n", "t", "e", "x", "t", "S", "t", "o", "r", "e", "A", "g", "e", "n", "t">>,
       <<"N", "S", "G", "l", "o", "b", "a", "l", "D", "o", "m", "a", "i", "n">>
    >>

AppSupportSkipFolders ==
    <<
       <<"A", "d", "d", "r", "e", "s", "s", "B", "o", "o", "k">>,
       <<"A", "p", "p", "S", "t", "o", "r", "e">>,
       <<"C", "a", "l", "l", "H", "i", "s", "t", "o", "r", "y", "D", "B">>,
       <<"C", "l", "o", "u", "d", "D", "o", "c", "s">>,
       <<"C", "r", "a", "s", "h", "R", "e", "p", "o", "r", "t", "e", "r">>,
       <<"D", "o", "c", "k">>,
       <<"F", "i", "l", "e", "P", "r", "o", "v", "i", "d", "e", "r">>,
       <<"i", "C", "l", "o", "u", "d">>,
       <<"i", "c", "d", "d">>,
       <<"K", "n", "o", "w", "l", "e", "d", "g", "e">>,
       <<"M", "o", "b", "i", "l", "e", "S", "y", "n", "c">>,
       <<"N", "o", "t", "i", "f", "i", "c", "a", "t", "i", "o", "n", "C", "e", "n", "t", "e", "r">>,
       <<"Q", "u", "i", "c", "k", " ", "L", "o", "o", "k">>,
       <<"S", "p", "o", "t", "l", "i", "g", "h", "t">>,
       <<"c", "o", "m", ".", "a", "p", "p", "l", "e", ".">>,
       <<"A", "p", "p", "l", "e">>,
       <<"S", "y", "n", "c", "S", "e", "r", "v", "i", "c", "e", "s">>,
       <<"C", "o", "r", "e", "D", "a", "t", "a">>
    >>

LaunchAgentSkipPrefixes ==
    <<
       <<"c", "o", "m", ".", "a", "p", "p", "l", "e", ".">>,
       <<"c", "o", "m", ".", "o", "p", "e", "n", "s", "s", "h">>,
       <<"b", "o", "o", "t", "c", "a", "m", "p">>,
       <<"o", "r", "g", ".", "g", "p", "g", "t", "o", "o", "l", "s">>
    >>

CacheSkipPrefixes ==
    <<
       <<"c", "o", "m", ".", "a", "p", "p", "l", "e", ".">>,
       <<"C", "l", "o", "u", "d", "K", "i", "t">>,
       <<"G", "e", "o", "S", "e", "r", "v", "i", "c", "e", "s">>,
       <<"P", "a", "s", "s", "K", "i", "t">>,
       <<"c", "o", "m", ".", "c", "r", "a", "s", "h", "l", "y", "t", "i", "c", "s">>,
       <<"g", "o", "o", "g", "l", "e">>,
       <<"o", "r", "g", ".", "s", "w", "i", "f", "t">>
    >>

LogsSkipFolders ==
    <<
       <<"D", "i", "a", "g", "n", "o", "s", "t", "i", "c", "R", "e", "p", "o", "r", "t", "s">>,
       <<"c", "o", "m", ".", "a", "p", "p", "l", "e", ".">>,
       <<"C", "o", "r", "e", "S", "i", "m", "u", "l", "a", "t", "o", "r">>,
       <<"H", "o", "m", "e", "b", "r", "e", "w">>
    >>

\* any(name.startswith(prefix.lower()) for prefix in skip_prefixes)
SkipByPrefix(name, skips) ==
    \E k \in 1..Len(skips) : StartsWith(name, Lower(skips[k]))

\* any(name.startswith(skip.lower()) or name == skip.lower() for skip in skip_folders)
SkipByFolder(name, skips) ==
    \E k \in 1..Len(skips) :
        StartsWith(name, Lower(skips[k])) \/ name = Lower(skips[k])

(***************************************************************************)
(* The names and identifiers the model draws its inputs from.              *)
(***************************************************************************)
ComOldTool == <<"c", "o", "m", ".", "o", "l", "d", ".", "t", "o", "o", "l">>

ComOldToolHelper == <<"c", "o", "m", ".", "o", "l", "d", ".", "t", "o", "o", "l", ".", "h", "e", "l", "p", "e", "r">>

ComAcmeWidget == <<"c", "o", "m", ".", "a", "c", "m", "e", ".", "W", "i", "d", "g", "e", "t">>

ComAcmeWidgetLower == <<"c", "o", "m", ".", "a", "c", "m", "e", ".", "w", "i", "d", "g", "e", "t">>

ComAppleX == <<"c", "o", "m", ".", "a", "p", "p", "l", "e", ".", "x">>

TeamOldTool == <<"T", "9", ".", "c", "o", "m", ".", "o", "l", "d", ".", "t", "o", "o", "l">>

WidgetName == <<"W", "i", "d", "g", "e", "t">>

NotesTxt == <<"n", "o", "t", "e", "s", ".", "t", "x", "t">>
(***************************************************************************)
(* Filesystem artifacts.  An artifact is one directory entry of a scanned  *)
(* location:                                                               *)
(*   name    the entry's file name                                         *)
(*   kind    "dir" or "file": what is_dir() / is_file() report             *)
(*   raises  "no"; "kind": is_dir() / is_file() raises (permission         *)
(*           denied); "stat": stat() raises (the file vanished after it    *)
(*           was listed)                                                   *)
(*   du      TRUE when `du -sk` exits 0 with a parsable first field        *)
(*   kb      the kibibytes du reports                                      *)
(*   bytes   st_size of a file, or the sum the rglob walk arrives at       *)
(***************************************************************************)
KiB == 1024

\* get_directory_size(path)
get_directory_size(a) ==
    IF a.du THEN a.kb * KiB ELSE a.bytes

\* pref_file.stat().st_size / plist_file.stat().st_size
StatSize(a) == a.bytes

(***************************************************************************)
(* LeftoverItem.  id is the f-string prefix followed by the entry's name   *)
(* (or stem); path is the scanned directory and the entry's name.          *)
(***************************************************************************)
LeftoverItem(id, dir, fname, bundle_id, detection_source, category, confidence, size, selected) ==
    [id |-> id, path |-> [dir |-> dir, name |-> fname], bundle_id |-> bundle_id,
     detection_source |-> detection_source, category |-> category,
     confidence |-> confidence, size |-> size, selected |-> selected]

\* if size >= <minimum>: the slip of admitting the minimum itself.
AtLeastMinSize(size, minimum) == size >= minimum

\* if size > <minimum>: the size filter of the detectors.
AboveMinSize(size, minimum) == size > minimum

\* What one pass of a detector's loop body does: it raises, or it appends
\* the items of `items` (none or one) to orphans.
Raise == [raised |-> TRUE, items |-> <<>>]

Skip == [raised |-> FALSE, items |-> <<>>]

Emit(item) == [raised |-> FALSE, items |-> <<item>>]

ContainersDir == "~/Library/Containers"

GroupContainersDir == "~/Library/Group Containers"

PreferencesDir == "~/Library/Preferences"

AppSupportDir == "~/Library/Application Support"

UserLaunchAgentsDir == "~/Library/LaunchAgents"

SystemLaunchAgentsDir == "/Library/LaunchAgents"

CachesDir == "~/Library/Caches"

LogsDir == "~/Library/Logs"

(***************************************************************************)
(* Containers.                                                             *)
(***************************************************************************)
\* The test without its "not": a container is taken for owned when its
\* name is missing from the index.
ContainerOwnedInverted(container_id, installed_ids) == container_id \notin installed_ids

\* The test loosened to containment: a container is taken for owned when its
\* name is a substring of an installed identifier.
ContainerOwnedBySubstring(container_id, installed_ids) ==
    \E installed_id \in installed_ids : IsSubstr(container_id, installed_id)

\* container_id not in installed_ids, negated
ContainerOwned(container_id, installed_ids) == container_id \in installed_ids

ContainerMinSize == 0

ContainerVisit(a, installed_ids) ==
    IF a.raises = "kind" THEN Raise
    ELSE IF a.kind # "dir" THEN Skip
    ELSE LET container_id == Lower(a.name)
             size == get_directory_size(a)
         IN  IF ContainerOwned(container_id, installed_ids) THEN Skip
             ELSE IF AboveMinSize(size, ContainerMinSize)
                  THEN Emit(LeftoverItem(<<"c", "o", "n", "t", "a", "i", "n", "e", "r", "_">> \o a.name,
                                         ContainersDir, a.name, a.name, "container_scan",
                                         "Containers", "high", size, TRUE))
                  ELSE Skip

(***************************************************************************)
(* Group Containers.                                                       *)
(***************************************************************************)
\* parts = container.name.split('.', 1); parts[1].lower() or container_id
BundlePortion(fname) ==
    LET parts == SplitOnce(fname)
    IN  IF Len(parts) > 1 THEN Lower(parts[2]) ELSE Lower(fname)

\* The test with only its first clause: the installed identifier inside the
\* full folder name.
GroupContainerOwnedFullOnly(container_id, bundle_portion, installed_ids) ==
    \E installed_id \in installed_ids : IsSubstr(installed_id, container_id)

GroupContainerOwned(container_id, bundle_portion, installed_ids) ==
    \E installed_id \in installed_ids :
        IsSubstr(installed_id, container_id) \/ IsSubstr(bundle_portion, installed_id)

GroupContainerMinSize == 0

GroupContainerVisit(a, installed_ids) ==
    IF a.raises = "kind" THEN Raise
    ELSE IF a.kind # "dir" THEN Skip
    ELSE LET container_id == Lower(a.name)
             bundle_portion == BundlePortion(a.name)
             size == get_directory_size(a)
         IN  IF GroupContainerOwned(container_id, bundle_portion, installed_ids) THEN Skip
             ELSE IF AboveMinSize(size, GroupContainerMinSize)
                  THEN Emit(LeftoverItem(<<"g", "r", "o", "u", "p", "_", "c", "o", "n", "t", "a", "i", "n", "e", "r", "_">> \o a.name,
                                         GroupContainersDir, a.name, a.name, "group_container_scan",
                                         "Group Containers", "high", size, TRUE))
                  ELSE Skip

(***************************************************************************)
(* Preferences.                                                            *)
(***************************************************************************)
\* The containment tests turned round: the file name inside the identifier.
PreferenceOwnedReversed(pref_name, installed_ids) ==
    \E installed_id \in installed_ids :
        \/ pref_name = installed_id
        \/ StartsWith(installed_id, pref_name)
        \/ IsSubstr(pref_name, installed_id)

\* is_orphan, negated: the loop over installed_ids with its two tests.
PreferenceOwned(pref_name, installed_ids) ==
    \E installed_id \in installed_ids :
        \/ pref_name = installed_id
        \/ StartsWith(pref_name, installed_id)
        \/ IsSubstr(installed_id, pref_name)

PreferenceMinSize == 0

PreferenceVisit(a, installed_ids) ==
    IF ~MatchesPlistGlob(a.name) THEN Skip
    ELSE IF a.raises = "kind" THEN Raise
    ELSE IF a.kind # "file" THEN Skip
    ELSE LET pref_name == Lower(Stem(a.name))
         IN  IF SkipByPrefix(pref_name, PrefSkipPrefixes) THEN Skip
             ELSE IF PreferenceOwned(pref_name, installed_ids) THEN Skip
             ELSE IF a.raises = "stat" THEN Raise
             ELSE IF AboveMinSize(StatSize(a), PreferenceMinSize)
                  THEN Emit(LeftoverItem(<<"p", "r", "e", "f", "_">> \o Stem(a.name),
                                         PreferencesDir, a.name, Stem(a.name), "preferences_scan",
                                         "Preferences", "medium", StatSize(a), TRUE))
                  ELSE Skip

(***************************************************************************)
(* Application Support.                                                    *)
(***************************************************************************)
\* any(part.lower() == folder_name for part in installed_id.split('.'))
TokenMatch(fname, installed_id) ==
    LET installed_parts == Split(installed_id)
    IN  \E k \in 1..Len(installed_parts) : Lower(installed_parts[k]) = fname

\* The test with containment in one direction only.
AppSupportOwnedOneWay(folder_name, installed_ids) ==
    \E installed_id \in installed_ids :
        \/ IsSubstr(folder_name, installed_id)
        \/ TokenMatch(folder_name, installed_id)

AppSupportOwned(folder_name, installed_ids) ==
    \E installed_id \in installed_ids :
        \/ IsSubstr(folder_name, installed_id)
        \/ IsSubstr(installed_id, folder_name)
        \/ TokenMatch(folder_name, installed_id)

AppSupportMinSize == 1024

AppSupportVisit(a, installed_ids) ==
    IF a.raises = "kind" THEN Raise
    ELSE IF a.kind # "dir" THEN Skip
    ELSE LET folder_name == Lower(a.name)
             size == get_directory_size(a)
         IN  IF SkipByFolder(folder_name, AppSupportSkipFolders) THEN Skip
             ELSE IF AppSupportOwned(folder_name, installed_ids) THEN Skip
             ELSE IF AboveMinSize(size, AppSupportMinSize)
                  THEN Emit(LeftoverItem(<<"a", "p", "p", "s", "u", "p", "p", "o", "r", "t", "_">> \o a.name,
                                         AppSupportDir, a.name, <<"*", ".">> \o a.name, "app_support_scan",
                                         "Application Support", "medium", size, TRUE))
                  ELSE Skip

(***************************************************************************)
(* Launch Agents: the loop body, run for the user and then the system      *)
(* directory.                                                              *)
(***************************************************************************)
LaunchAgentOwned(plist_name, installed_ids) ==
    \E installed_id \in installed_ids :
        \/ plist_name = installed_id
        \/ IsSubstr(installed_id, plist_name)
        \/ IsSubstr(plist_name, installed_id)

LaunchAgentVisit(dir, a, installed_ids) ==
    IF ~MatchesPlistGlob(a.name) THEN Skip
    ELSE IF a.raises = "kind" THEN Raise
    ELSE IF a.kind # "file" THEN Skip
    ELSE LET plist_name == Lower(Stem(a.name))
         IN  IF SkipByPrefix(plist_name, LaunchAgentSkipPrefixes) THEN Skip
             ELSE IF LaunchAgentOwned(plist_name, installed_ids) THEN Skip
             ELSE IF a.raises = "stat" THEN Raise
             ELSE Emit(LeftoverItem(<<"l", "a", "u", "n", "c", "h", "a", "g", "e", "n", "t", "_">> \o Stem(a.name),
                                    dir, a.name, Stem(a.name), "launch_agent_scan",
                                    "Launch Agents", "high", StatSize(a), TRUE))

(***************************************************************************)
(* Caches.                                                                 *)
(***************************************************************************)
\* is_orphan starting as False and set by a non-matching identifier: with
\* no identifier at all the folder is never an orphan.
CacheOwnedInitFalse(cache_name, installed_ids) ==
    ~ \E installed_id \in installed_ids :
        ~ \/ cache_name = installed_id
          \/ IsSubstr(installed_id, cache_name)
          \/ IsSubstr(cache_name, installed_id)

\* is_orphan, negated.
CacheOwned(cache_name, installed_ids) ==
    \E installed_id \in installed_ids :
        \/ cache_name = installed_id
        \/ IsSubstr(installed_id, cache_name)
        \/ IsSubstr(cache_name, installed_id)

CacheMinSize == 10240

CacheVisit(a, installed_ids) ==
    IF a.raises = "kind" THEN Raise
    ELSE IF a.kind # "dir" THEN Skip
    ELSE LET cache_name == Lower(a.name)
             size == get_directory_size(a)
         IN  IF SkipByPrefix(cache_name, CacheSkipPrefixes) THEN Skip
             ELSE IF CacheOwned(cache_name, installed_ids) THEN Skip
             ELSE IF AboveMinSize(size, CacheMinSize)
                  THEN Emit(LeftoverItem(<<"c", "a", "c", "h", "e", "_">> \o a.name,
                                         CachesDir, a.name, a.name, "cache_scan",
                                         "Caches", "medium", size, TRUE))
                  ELSE Skip

(***************************************************************************)
(* Logs.                                                                   *)
(***************************************************************************)
LogsOwned(log_name, installed_ids) ==
    \E installed_id \in installed_ids :
        \/ IsSubstr(log_name, installed_id)
        \/ IsSubstr(installed_id, log_name)
        \/ TokenMatch(log_name, installed_id)

LogsMinSize == 1024

\* The item built as the other detectors build theirs: selected=True.
LogsVisitSelected(a, installed_ids) ==
    IF a.raises = "kind" THEN Raise
    ELSE IF a.kind # "dir" THEN Skip
    ELSE LET log_name == Lower(a.name)
             size == get_directory_size(a)
         IN  IF SkipByFolder(log_name, LogsSkipFolders) THEN Skip
             ELSE IF LogsOwned(log_name, installed_ids) THEN Skip
             ELSE IF AboveMinSize(size, LogsMinSize)
                  THEN Emit(LeftoverItem(<<"l", "o", "g", "s", "_">> \o a.name,
                                         LogsDir, a.name, <<"*", ".">> \o a.name, "logs_scan",
                                         "Logs", "low", size, TRUE))
                  ELSE Skip

LogsVisit(a, installed_ids) ==
    IF a.raises = "kind" THEN Raise
    ELSE IF a.kind # "dir" THEN Skip
    ELSE LET log_name == Lower(a.name)
             size == get_directory_size(a)
         IN  IF SkipByFolder(log_name, LogsSkipFolders) THEN Skip
             ELSE IF LogsOwned(log_name, installed_ids) THEN Skip
             ELSE IF AboveMinSize(size, LogsMinSize)
                  THEN Emit(LeftoverItem(<<"l", "o", "g", "s", "_">> \o a.name,
                                         LogsDir, a.name, <<"*", ".">> \o a.name, "logs_scan",
                                         "Logs", "low", size, FALSE))
                  ELSE Skip

(***************************************************************************)
(* The detectors: the loop over a location's entries inside try/except.    *)
(***************************************************************************)
Detectors ==
    {"container", "group_container", "app_support", "preference",
     "launch_agent", "cache", "logs"}

\* The loop body of detector d, scanning directory dir.
Visit(d, dir, a, installed_ids) ==
    CASE d = "container"       -> ContainerVisit(a, installed_ids)
      [] d = "group_container" -> GroupContainerVisit(a, installed_ids)
      [] d = "app_support"     -> AppSupportVisit(a, installed_ids)
      [] d = "preference"      -> PreferenceVisit(a, installed_ids)
      [] d = "launch_agent"    -> LaunchAgentVisit(dir, a, installed_ids)
      [] d = "cache"           -> CacheVisit(a, installed_ids)
      [] d = "logs"            -> LogsVisit(a, installed_ids)

\* The directories detector d scans, in order.
DirsOf(d) ==
    CASE d = "container"       -> <<ContainersDir>>
      [] d = "group_container" -> <<GroupContainersDir>>
      [] d = "app_support"     -> <<AppSupportDir>>
      [] d = "preference"      -> <<PreferencesDir>>
      [] d = "launch_agent"    -> <<UserLaunchAgentsDir, SystemLaunchAgentsDir>>
      [] d = "cache"           -> <<CachesDir>>
      [] d = "logs"            -> <<LogsDir>>

\* try: for entry in <listing>: <body>  except: pass
\* from entry i on, orphans being the items appended so far; an exception
\* leaves the loop, and what follows the raising entry is never looked at.
RECURSIVE ScanLoop(_, _, _, _, _, _)
ScanLoop(d, dir, listing, installed_ids, i, orphans) ==
    IF i > Len(listing) THEN orphans
    ELSE LET r == Visit(d, dir, listing[i], installed_ids)
         IN  IF r.raised
             THEN orphans
             ELSE ScanLoop(d, dir, listing, installed_ids, i + 1, orphans \o r.items)

\* One directory of a detector.  A location is [status, listing]: status is
\* "ok", "missing" (exists() is false), "unreadable" (listing it raises,
\* inside the try) or "denied" (exists() itself raises: Path.exists()
\* re-raises EACCES, which stat() reports when ~/Library cannot be searched).
ScanDir(d, dir, loc, installed_ids) ==
    IF loc.status # "ok" THEN <<>>
    ELSE ScanLoop(d, dir, loc.listing, installed_ids, 1, <<>>)

RECURSIVE ScanDirs(_, _, _, _, _)
ScanDirs(d, dirs, k, files, installed_ids) ==
    IF k > Len(dirs) THEN <<>>
    ELSE ScanDir(d, dirs[k], files[dirs[k]], installed_ids)
            \o ScanDirs(d, dirs, k + 1, files, installed_ids)

\* detect_<d>_orphans raises: the exists() test of a location stands before
\* the try statement.
DetectRaises(d, files) ==
    \E k \in 1..Len(DirsOf(d)) : files[DirsOf(d)[k]].status = "denied"

\* detect_<d>_orphans(installed_ids) on the filesystem `files`.
Detect(d, files, installed_ids) == ScanDirs(d, DirsOf(d), 1, files, installed_ids)

(***************************************************************************)
(* Inputs: directory entries and installed applications.                   *)
(***************************************************************************)
\* du outcome and byte counts of an entry.  A file of 700 bytes occupies one
\* kibibyte on disk; du's result is a multiple of 1024, the walk's is not.
SizeProfiles ==
    { [du |-> TRUE,  kb |-> 0,  bytes |-> 0],
      [du |-> TRUE,  kb |-> 1,  bytes |-> 700],
      [du |-> FALSE, kb |-> 0,  bytes |-> 1025],
      [du |-> TRUE,  kb |-> 10, bytes |-> 9000],
      [du |-> FALSE, kb |-> 0,  bytes |-> 10241] }

Entry(fname, kind, raises, p) ==
    [name |-> fname, kind |-> kind, raises |-> raises,
     du |-> p.du, kb |-> p.kb, bytes |-> p.bytes]

FolderNames == {ComOldTool, ComAcmeWidget, ComAppleX, WidgetName}

\* Group containers are named <team id>.<bundle-like portion>.
GroupFolderNames == {ComOldTool, ComAcmeWidget, TeamOldTool}

PlistNames == {n \o DotPlist : n \in {ComOldTool, ComAcmeWidget, ComAppleX, WidgetName}}

\* st_size of a .plist file (du is not run on it).
PlistProfiles == {p \in SizeProfiles : p.bytes \in {0, 700, 10241}}

BigProfile == [du |-> FALSE, kb |-> 0, bytes |-> 10241]

\* Entries of the locations whose artifacts are folders.
FolderEntries ==
    {Entry(n, "dir", "no", p) : n \in FolderNames, p \in SizeProfiles}
        \cup {Entry(ComOldTool, "file", "no", BigProfile),
              Entry(ComOldTool, "dir", "kind", BigProfile)}

\* Entries of ~/Library/Group Containers.
GroupFolderEntries ==
    {Entry(n, "dir", "no", p) : n \in GroupFolderNames, p \in SizeProfiles}
        \cup {Entry(TeamOldTool, "file", "no", BigProfile),
              Entry(TeamOldTool, "dir", "kind", BigProfile)}

\* Entries of the locations whose artifacts are .plist files.
PlistEntries ==
    {Entry(n, "file", "no", p) : n \in PlistNames, p \in PlistProfiles}
        \cup {Entry(NotesTxt, "file", "no", BigProfile),
              Entry(ComOldTool \o DotPlist, "dir", "no", BigProfile),
              Entry(ComOldTool \o DotPlist, "file", "kind", BigProfile),
              Entry(ComOldTool \o DotPlist, "file", "stat", BigProfile)}

EntriesOf(d) ==
    IF d \in {"preference", "launch_agent"} THEN PlistEntries
    ELSE IF d = "group_container" THEN GroupFolderEntries
    ELSE FolderEntries

\* CFBundleIdentifier values of the applications that may be installed.
AppUniverse == {ComOldToolHelper, ComAcmeWidget}

\* get_installed_bundle_ids(): the lower-cased identifiers of the installed
\* applications.
get_installed_bundle_ids(installed) == {Lower(b) : b \in installed}

(***************************************************************************)
(* get_installed_bundle_ids, strategy by strategy.                         *)
(*                                                                         *)
(* An application bundle a strategy enumerates is a record                 *)
(*   present   os.path.exists(app_path): the path Spotlight printed still  *)
(*             exists                                                      *)
(*   manifest  Contents/Info.plist: "absent"; "denied" (stat() of it       *)
(*             fails with EACCES); "unreadable" (defaults exits non-zero,  *)
(*             is missing or times out); "readable"                        *)
(*   stdout    what defaults prints for CFBundleIdentifier                 *)
(***************************************************************************)
Whitespace == {" ", "\n", "\t"}

\* str.strip()
RECURSIVE Strip(_)
Strip(s) ==
    IF s = <<>> THEN <<>>
    ELSE IF Head(s) \in Whitespace THEN Strip(Tail(s))
    ELSE IF s[Len(s)] \in Whitespace THEN Strip(SubSeq(s, 1, Len(s) - 1))
    ELSE s

\* parse_plist_bundle_id: result.stdout.strip() when defaults exits with 0,
\* and "" when it exits non-zero or subprocess.run raises.
parse_plist_bundle_id(app) ==
    IF app.manifest = "readable" THEN Strip(app.stdout) ELSE <<>>

\* os.path.exists(plist_path): False on any OSError.
OsPathExists(app) == app.manifest \in {"unreadable", "readable"}

\* plist_path.exists(): Path.exists() re-raises an OSError other than
\* ENOENT, ENOTDIR, EBADF, ELOOP.
PathExistsRaises(app) == app.manifest = "denied"

PathExists(app) == app.manifest \in {"unreadable", "readable"}

Caught(bundle_ids) == [raised |-> TRUE, bundle_ids |-> bundle_ids]

Completed(bundle_ids) == [raised |-> FALSE, bundle_ids |-> bundle_ids]

\* if bundle_id: bundle_ids.add(bundle_id.lower())
AddBundleId(bundle_ids, bundle_id) ==
    IF bundle_id # <<>> THEN bundle_ids \cup {Lower(bundle_id)} ELSE bundle_ids

\* for app_path in result.stdout.strip().split('\n'): ...
RECURSIVE MdfindLoop(_, _, _)
MdfindLoop(apps, i, bundle_ids) ==
    IF i > Len(apps) THEN Completed(bundle_ids)
    ELSE IF apps[i].present /\ OsPathExists(apps[i])
         THEN MdfindLoop(apps, i + 1, AddBundleId(bundle_ids, parse_plist_bundle_id(apps[i])))
         ELSE MdfindLoop(apps, i + 1, bundle_ids)

\* for app in <directory>.glob('*.app'): ...
RECURSIVE GlobLoop(_, _, _)
GlobLoop(apps, i, bundle_ids) ==
    IF i > Len(apps) THEN Completed(bundle_ids)
    ELSE IF PathExistsRaises(apps[i]) THEN Caught(bundle_ids)
    ELSE IF PathExists(apps[i])
         THEN GlobLoop(apps, i + 1, AddBundleId(bundle_ids, parse_plist_bundle_id(apps[i])))
         ELSE GlobLoop(apps, i + 1, bundle_ids)

\* Method 1.  tool: "absent" and "timeout" (subprocess.run raises),
\* "nonzero" (returncode != 0), "ok".
MdfindStrategy(input, bundle_ids) ==
    IF input.status \in {"absent", "timeout"} THEN Caught(bundle_ids)
    ELSE IF input.status = "nonzero" THEN Completed(bundle_ids)
    ELSE MdfindLoop(input.apps, 1, bundle_ids)

\* Method 2.  /Applications: "unreadable" (scandir fails inside glob), "ok".
ApplicationsStrategy(input, bundle_ids) ==
    IF input.status = "unreadable" THEN Caught(bundle_ids)
    ELSE GlobLoop(input.apps, 1, bundle_ids)

\* Method 3.  ~/Applications: "missing" (exists() is False), "denied"
\* (exists() raises), "ok".
UserApplicationsStrategy(input, bundle_ids) ==
    IF input.status = "denied" THEN Caught(bundle_ids)
    ELSE IF input.status = "missing" THEN Completed(bundle_ids)
    ELSE GlobLoop(input.apps, 1, bundle_ids)

Strategy(k, input, bundle_ids) ==
    CASE k = 1 -> MdfindStrategy(input, bundle_ids)
      [] k = 2 -> ApplicationsStrategy(input, bundle_ids)
      [] k = 3 -> UserApplicationsStrategy(input, bundle_ids)

\* Where control goes when strategy k's try block ends by an exception, if
\* one try enclosed all three strategies: to the return statement.
AfterExceptOuterTry(k) == "return"

\* Where control goes when strategy k's try block ends by an exception:
\* except: pass, then the next strategy.
AfterExcept(k) == IF k < 3 THEN "method" ELSE "return"

\* Inputs.
MaxApps == 2

NewLine == <<"\n">>

App(present, manifest, id) ==
    [present |-> present, manifest |-> manifest, stdout |-> id \o NewLine]

AppChoices ==
    {App(TRUE, "readable", ComAcmeWidget), App(TRUE, "readable", ComOldToolHelper),
     App(TRUE, "unreadable", <<>>), App(TRUE, "denied", <<>>),
     App(TRUE, "absent", <<>>), App(FALSE, "absent", <<>>)}

AppListings == UNION {[1..n -> AppChoices] : n \in 0..MaxApps}

StrategyStatus(k) ==
    CASE k = 1 -> {"absent", "timeout", "nonzero", "ok"}
      [] k = 2 -> {"unreadable", "ok"}
      [] k = 3 -> {"missing", "denied", "ok"}
      [] OTHER -> {}

StrategyInput(status, apps) == [status |-> status, apps |-> apps]

StrategyInputs(k) ==
    {StrategyInput(status, <<>>) : status \in StrategyStatus(k) \ {"ok"}}
        \cup {StrategyInput(status, apps) :
                 status \in StrategyStatus(k) \cap {"ok"}, apps \in AppListings}

NoInput == StrategyInput("none", <<>>)

IndexChoices == {get_installed_bundle_ids(A) : A \in SUBSET AppUniverse}

LocationStatus == {"ok", "missing", "unreadable", "denied"}

(***************************************************************************)
(* State.                                                                  *)
(*   files      the scanned locations: directory -> [status, listing]      *)
(*   installed  CFBundleIdentifier values of the installed applications    *)
(*   leftover_results, leftover_scan_in_progress, leftover_scan_complete,  *)
(*   leftover_scan_progress: the module-level globals of src/app.py        *)
(*   procs      the start requests: each is handled by a request thread    *)
(*              and, when accepted, continues as the scan thread it spawns *)
(*   history    the result lists published so far, oldest first            *)
(*   det        one detector run, entry by entry                           *)
(*   idx        one call of get_installed_bundle_ids, strategy by strategy *)
(*   poll       the polling request being served                           *)
(*   mono       one detector run on two indexes, entry by entry            *)
(*   nam        one call of infer_app_name                                 *)
(*   dsz        one call of get_directory_size                             *)
(*   cln        one call of clean_leftovers                                *)
(*   own        one ownership test on one folder name and one index        *)
(*   cs         the cache scan job: its globals and its start requests     *)
(*   cli        one run of the command line of src/mac.py                  *)
(***************************************************************************)
VARIABLES files, installed, leftover_results, leftover_scan_in_progress,
          leftover_scan_complete, leftover_scan_progress, procs, history, det,
          idx, poll, mono, nam, dsz, cln, own, cs, cli

scanVars == <<files, installed, leftover_results, leftover_scan_in_progress,
              leftover_scan_complete, leftover_scan_progress, procs, history>>

\* The variables the scan job and the detector run leave alone.
extVars == <<idx, poll, mono, nam, dsz, cln, own, cs, cli>>

\* The other ones of these variables, for each of them.
idxRest == <<poll, mono, nam, dsz, cln, own, cs, cli>>

pollRest == <<idx, mono, nam, dsz, cln, own, cs, cli>>

monoRest == <<idx, poll, nam, dsz, cln, own, cs, cli>>

namRest == <<idx, poll, mono, dsz, cln, own, cs, cli>>

dszRest == <<idx, poll, mono, nam, cln, own, cs, cli>>

clnRest == <<idx, poll, mono, nam, dsz, own, cs, cli>>

ownRest == <<idx, poll, mono, nam, dsz, cln, cs, cli>>

csRest == <<idx, poll, mono, nam, dsz, cln, own, cli>>

cliRest == <<idx, poll, mono, nam, dsz, cln, own, cs>>

vars == <<files, installed, leftover_results, leftover_scan_in_progress,
          leftover_scan_complete, leftover_scan_progress, procs, history, det,
          extVars>>

Dirs ==
    {ContainersDir, GroupContainersDir, PreferencesDir, AppSupportDir,
     UserLaunchAgentsDir, SystemLaunchAgentsDir, CachesDir, LogsDir}

Location(status, listing) == [status |-> status, listing |-> listing]

SmallProfile == [du |-> TRUE, kb |-> 1, bytes |-> 700]

\* What a directory holds when it is populated.
Populated(dir) ==
    CASE dir = ContainersDir ->
            <<Entry(ComOldTool, "dir", "no", SmallProfile)>>
      [] dir = GroupContainersDir ->
            <<Entry(TeamOldTool, "dir", "no", SmallProfile)>>
      [] dir = AppSupportDir ->
            <<Entry(WidgetName, "dir", "no", BigProfile)>>
      [] dir = PreferencesDir ->
            <<Entry(WidgetName \o DotPlist, "file", "stat", SmallProfile),
              Entry(ComOldTool \o DotPlist, "file", "no", BigProfile)>>
      [] dir = UserLaunchAgentsDir ->
            <<Entry(ComOldTool \o DotPlist, "file", "no", SmallProfile)>>
      [] dir = SystemLaunchAgentsDir ->
            <<Entry(ComOldTool \o DotPlist, "file", "no", SmallProfile)>>
      [] dir = CachesDir ->
            <<Entry(ComOldTool, "dir", "no", BigProfile)>>
      [] dir = LogsDir ->
            <<Entry(WidgetName, "dir", "no", BigProfile)>>

\* The directories that are populated in every filesystem of the model, and
\* those that are populated in some.
AlwaysPopulated == {ContainersDir, UserLaunchAgentsDir, SystemLaunchAgentsDir, CachesDir}

SometimesPopulated == {PreferencesDir, LogsDir}

Filesystem(P) ==
    [dir \in Dirs |-> Location("ok", IF dir \in P THEN Populated(dir) ELSE <<>>)]

\* ~/Library cannot be searched: stat() of every location below it fails
\* with EACCES.
DeniedFs ==
    [dir \in Dirs |-> IF dir = SystemLaunchAgentsDir
                      THEN Location("ok", Populated(dir))
                      ELSE Location("denied", <<>>)]

FsChoices ==
    {Filesystem(AlwaysPopulated \cup P) : P \in SUBSET SometimesPopulated}
        \cup {DeniedFs}

\* The sets of applications that may be installed when the server runs.
InstalledChoices == {{}, {ComAcmeWidget}}

EmptyFs == [dir \in Dirs |-> Location("missing", <<>>)]

\* leftover_scan_progress as the module defines it.
InitialProgress ==
    [current |-> 0, total |-> 0, percent |-> 0, current_location |-> "",
     found_count |-> 0, total_size |-> 0]

NewProc ==
    [pc |-> "new", k |-> 0, results |-> <<>>, installed_ids |-> {}, response |-> "none"]

Procs == 1..MaxRequests

NoEntry == [name |-> <<>>, kind |-> "none", raises |-> "no",
            du |-> FALSE, kb |-> 0, bytes |-> 0]

DetIdle ==
    [name |-> "none", dirs |-> <<>>, k |-> 0, installed_ids |-> {},
     orphans |-> <<>>, seen |-> 0, state |-> "idle", last |-> NoEntry,
     appended |-> FALSE]

(***************************************************************************)
(* One detector run, entry by entry.  det.state: "idle"; "loop" inside the *)
(* for loop of directory det.dirs[det.k]; "left" after that loop ended     *)
(* (exhausted, or an exception was caught); "returned"; "raised" when      *)
(* exists() raised.  det.last is the entry the last pass looked at,        *)
(* det.appended whether that pass appended an item.                        *)
(***************************************************************************)
EnterDir(status) ==
    IF status = "ok" THEN "loop" ELSE IF status = "denied" THEN "raised" ELSE "left"

\* A detector is called with an index; its first directory is ok, missing
\* or unreadable.
DetectBegin(d, installed_ids, status) ==
    /\ det.state = "idle"
    /\ det' = [name |-> d, dirs |-> DirsOf(d), k |-> 1, installed_ids |-> installed_ids,
               orphans |-> <<>>, seen |-> 0, state |-> EnterDir(status),
               last |-> NoEntry, appended |-> FALSE]
    /\ UNCHANGED <<scanVars, extVars>>

\* One pass of the loop body over the next entry the directory yields.
DetectVisit(a) ==
    /\ det.state = "loop"
    /\ det.seen < MaxListing
    /\ LET r == Visit(det.name, det.dirs[det.k], a, det.installed_ids)
       IN  det' = [det EXCEPT !.orphans = @ \o r.items,
                              !.seen = @ + 1,
                              !.state = IF r.raised THEN "left" ELSE "loop",
                              !.last = a,
                              !.appended = r.items # <<>>]
    /\ UNCHANGED <<scanVars, extVars>>

\* The directory has no more entries.
DetectExhausted ==
    /\ det.state = "loop"
    /\ det' = [det EXCEPT !.state = "left"]
    /\ UNCHANGED <<scanVars, extVars>>

\* After a directory's loop: the next directory (Launch Agents has two),
\* ok, missing or unreadable.
DetectNextDir(status) ==
    /\ det.state = "left"
    /\ det.k < Len(det.dirs)
    /\ det' = [det EXCEPT !.k = @ + 1, !.state = EnterDir(status)]
    /\ UNCHANGED <<scanVars, extVars>>

\* return orphans
DetectReturn ==
    /\ det.state = "left"
    /\ det.k = Len(det.dirs)
    /\ det' = [det EXCEPT !.state = "returned"]
    /\ UNCHANGED <<scanVars, extVars>>

(***************************************************************************)
(* The leftover scan job: start_leftover_scan and the thread it spawns.    *)
(* pc of a request: "new" (not yet received); "rejected"; "h_in_progress", *)
(* "h_complete", "h_results", "h_progress": the handler is about to         *)
(* execute that assignment; "t_begin" .. "t_complete": the scan thread is  *)
(* about to execute that step; "done"; "died" when an exception ended the  *)
(* scan thread.                                                            *)
(***************************************************************************)
\* Steps 2..7 of do_leftover_scan: the detector called, the progress text
\* and the percentage.
ScanSteps ==
    << [detector |-> "container",       location |-> "Scanning Containers...",          percent |-> 25],
       [detector |-> "group_container", location |-> "Scanning Group Containers...",    percent |-> 40],
       [detector |-> "app_support",     location |-> "Scanning Application Support...", percent |-> 55],
       [detector |-> "preference",      location |-> "Scanning Preferences...",         percent |-> 70],
       [detector |-> "launch_agent",    location |-> "Scanning Launch Agents...",       percent |-> 85],
       [detector |-> "cache",           location |-> "Scanning Orphan Caches...",       percent |-> 95] >>

ThreadPcs ==
    {"t_begin", "t_detect", "t_finish", "t_publish", "t_clear", "t_complete"}

HandlerPcs == {"h_in_progress", "h_complete", "h_results", "h_progress"}

RECURSIVE SumSizes(_)
SumSizes(items) ==
    IF items = <<>> THEN 0 ELSE Head(items).size + SumSizes(Tail(items))

\* Where x goes in a list sorted by size, largest first: after every item
\* that is at least as large (list.sort is stable).
RECURSIVE Insert(_, _)
Insert(x, sorted) ==
    IF sorted = <<>> THEN <<x>>
    ELSE IF Head(sorted).size >= x.size
         THEN <<Head(sorted)>> \o Insert(x, Tail(sorted))
         ELSE <<x>> \o sorted

\* The list left in the order the detectors produced it.
Unsorted(items) == items

\* results.sort(key=lambda x: x.size, reverse=True)
RECURSIVE SortBySize(_)
SortBySize(items) ==
    IF items = <<>> THEN <<>>
    ELSE Insert(items[Len(items)], SortBySize(SubSeq(items, 1, Len(items) - 1)))

\* POST /api/scan/leftovers is received: the handler tests the flag.
StartRequest(i) ==
    /\ procs[i].pc = "new"
    /\ i > 1 => procs[i - 1].pc # "new"
    /\ procs' = [procs EXCEPT ![i] =
                    IF leftover_scan_in_progress
                    THEN [@ EXCEPT !.pc = "rejected", !.response = "already_scanning"]
                    ELSE [@ EXCEPT !.pc = "h_in_progress"]]
    /\ UNCHANGED <<files, installed, leftover_results, leftover_scan_in_progress,
                   leftover_scan_complete, leftover_scan_progress, history, det, extVars>>

\* leftover_scan_in_progress = True
HandlerSetInProgress(i) ==
    /\ procs[i].pc = "h_in_progress"
    /\ leftover_scan_in_progress' = TRUE
    /\ procs' = [procs EXCEPT ![i].pc = "h_complete"]
    /\ UNCHANGED <<files, installed, leftover_results, leftover_scan_complete,
                   leftover_scan_progress, history, det, extVars>>

\* leftover_scan_complete = False
HandlerSetComplete(i) ==
    /\ procs[i].pc = "h_complete"
    /\ leftover_scan_complete' = FALSE
    /\ procs' = [procs EXCEPT ![i].pc = "h_results"]
    /\ UNCHANGED <<files, installed, leftover_results, leftover_scan_in_progress,
                   leftover_scan_progress, history, det, extVars>>

\* leftover_results = []
HandlerSetResults(i) ==
    /\ procs[i].pc = "h_results"
    /\ leftover_results' = <<>>
    /\ procs' = [procs EXCEPT ![i].pc = "h_progress"]
    /\ UNCHANGED <<files, installed, leftover_scan_in_progress, leftover_scan_complete,
                   leftover_scan_progress, history, det, extVars>>

\* leftover_scan_progress = {...}; thread.start(); return "started"
HandlerSpawn(i) ==
    /\ procs[i].pc = "h_progress"
    /\ leftover_scan_progress' =
           [current |-> 0, total |-> 7, percent |-> 0,
            current_location |-> "Initializing...", found_count |-> 0, total_size |-> 0]
    /\ procs' = [procs EXCEPT ![i].pc = "t_begin", ![i].response = "started"]
    /\ UNCHANGED <<files, installed, leftover_results, leftover_scan_in_progress,
                   leftover_scan_complete, history, det, extVars>>

\* results kept across scans (a module-level list that is never cleared):
\* the thread starts from the list the previous scan published.
ThreadBeginKeep(i) ==
    /\ procs[i].pc = "t_begin"
    /\ procs' = [procs EXCEPT ![i].pc = "t_detect", ![i].k = 1, ![i].results = IF history = <<>> THEN <<>> ELSE history[Len(history)],
                              ![i].installed_ids = get_installed_bundle_ids(installed)]
    /\ leftover_scan_progress' =
           [leftover_scan_progress EXCEPT
               !.current_location = "Scanning installed applications...",
               !.current = 1, !.percent = 10]
    /\ UNCHANGED <<files, installed, leftover_results, leftover_scan_in_progress,
                   leftover_scan_complete, history, det, extVars>>

\* do_leftover_scan, step 1: results = []; the progress assignments;
\* installed_ids = get_installed_bundle_ids()
ThreadBegin(i) ==
    /\ procs[i].pc = "t_begin"
    /\ procs' = [procs EXCEPT ![i].pc = "t_detect", ![i].k = 1, ![i].results = <<>>,
                              ![i].installed_ids = get_installed_bundle_ids(installed)]
    /\ leftover_scan_progress' =
           [leftover_scan_progress EXCEPT
               !.current_location = "Scanning installed applications...",
               !.current = 1, !.percent = 10]
    /\ UNCHANGED <<files, installed, leftover_results, leftover_scan_in_progress,
                   leftover_scan_complete, history, det, extVars>>

\* A scan step that also publishes what has been found so far.
ThreadDetectPublishing(i) ==
    /\ procs[i].pc = "t_detect"
    /\ ~ DetectRaises(ScanSteps[procs[i].k].detector, files)
    /\ LET step == ScanSteps[procs[i].k]
           found == Detect(step.detector, files, procs[i].installed_ids)
           results == procs[i].results \o found
       IN  /\ procs' = [procs EXCEPT
                           ![i].results = results,
                           ![i].k = IF @ < Len(ScanSteps) THEN @ + 1 ELSE @,
                           ![i].pc = IF procs[i].k < Len(ScanSteps)
                                     THEN "t_detect" ELSE "t_finish"]
           /\ leftover_scan_progress' =
                  [leftover_scan_progress EXCEPT
                      !.current_location = step.location,
                      !.current = procs[i].k + 1,
                      !.percent = step.percent,
                      !.found_count = Len(results),
                      !.total_size = SumSizes(results)]
           /\ leftover_results' = results
    /\ UNCHANGED <<files, installed, leftover_scan_in_progress,
                   leftover_scan_complete, history, det, extVars>>

\* Steps 2..7: the progress assignments, then
\* results.extend(detect_..._orphans(installed_ids)) and the running totals.
ThreadDetect(i) ==
    /\ procs[i].pc = "t_detect"
    /\ LET step == ScanSteps[procs[i].k]
           found == Detect(step.detector, files, procs[i].installed_ids)
           results == procs[i].results \o found
       IN  IF DetectRaises(step.detector, files)
           THEN \* the exception leaves do_leftover_scan: the thread ends
                /\ procs' = [procs EXCEPT ![i].pc = "died"]
                /\ leftover_scan_progress' =
                       [leftover_scan_progress EXCEPT
                           !.current_location = step.location,
                           !.current = procs[i].k + 1,
                           !.percent = step.percent]
           ELSE /\ procs' = [procs EXCEPT
                                ![i].results = results,
                                ![i].k = IF @ < Len(ScanSteps) THEN @ + 1 ELSE @,
                                ![i].pc = IF procs[i].k < Len(ScanSteps)
                                          THEN "t_detect" ELSE "t_finish"]
                /\ leftover_scan_progress' =
                       [leftover_scan_progress EXCEPT
                           !.current_location = step.location,
                           !.current = procs[i].k + 1,
                           !.percent = step.percent,
                           !.found_count = Len(results),
                           !.total_size = SumSizes(results)]
    /\ UNCHANGED <<files, installed, leftover_results, leftover_scan_in_progress,
                   leftover_scan_complete, history, det, extVars>>

\* percent = 100; current_location = "Complete"
ThreadFinish(i) ==
    /\ procs[i].pc = "t_finish"
    /\ leftover_scan_progress' =
           [leftover_scan_progress EXCEPT !.percent = 100, !.current_location = "Complete"]
    /\ procs' = [procs EXCEPT ![i].pc = "t_publish"]
    /\ UNCHANGED <<files, installed, leftover_results, leftover_scan_in_progress,
                   leftover_scan_complete, history, det, extVars>>

\* results.sort(...); leftover_results = results
ThreadPublish(i) ==
    /\ procs[i].pc = "t_publish"
    /\ LET results == SortBySize(procs[i].results)
       IN  /\ leftover_results' = results
           /\ history' = Append(history, results)
           /\ procs' = [procs EXCEPT ![i].pc = "t_clear", ![i].results = results]
    /\ UNCHANGED <<files, installed, leftover_scan_in_progress, leftover_scan_complete,
                   leftover_scan_progress, det, extVars>>

\* leftover_scan_in_progress = False
ThreadClear(i) ==
    /\ procs[i].pc = "t_clear"
    /\ leftover_scan_in_progress' = FALSE
    /\ procs' = [procs EXCEPT ![i].pc = "t_complete"]
    /\ UNCHANGED <<files, installed, leftover_results, leftover_scan_complete,
                   leftover_scan_progress, history, det, extVars>>

\* leftover_scan_complete = True
ThreadComplete(i) ==
    /\ procs[i].pc = "t_complete"
    /\ leftover_scan_complete' = TRUE
    /\ procs' = [procs EXCEPT ![i].pc = "done"]
    /\ UNCHANGED <<files, installed, leftover_results, leftover_scan_in_progress,
                   leftover_scan_progress, history, det, extVars>>

(***************************************************************************)
(* One call of get_installed_bundle_ids.  idx.state: "idle"; "method"      *)
(* before strategy idx.k; "return" before the return statement;            *)
(* "returned".  idx.last is what the strategy that ran last met, idx.ran   *)
(* the strategies entered, idx.failed those that ended by an exception,    *)
(* idx.complete the identifiers the strategies that did not fail had to    *)
(* contribute.                                                             *)
(***************************************************************************)
IdxIdle ==
    [state |-> "idle", k |-> 0, bundle_ids |-> {}, last |-> NoInput,
     ran |-> {}, failed |-> {}, complete |-> {}]

\* The identifiers strategy k reads when nothing fails in it.
Readable(k, input) ==
    {Lower(Strip(input.apps[j].stdout)) :
        j \in {n \in 1..Len(input.apps) :
                  /\ input.apps[n].manifest = "readable"
                  /\ k = 1 => input.apps[n].present}}

\* bundle_ids = set()
IndexCall ==
    /\ idx.state = "idle"
    /\ idx' = [idx EXCEPT !.state = "method", !.k = 1]
    /\ UNCHANGED <<scanVars, det, idxRest>>

\* One strategy: its try block, and except: pass.
IndexStrategy(input) ==
    /\ idx.state = "method"
    /\ LET k == idx.k
           r == Strategy(k, input, idx.bundle_ids)
           next == IF r.raised THEN AfterExcept(k)
                   ELSE IF k < 3 THEN "method" ELSE "return"
       IN  idx' = [idx EXCEPT !.state = next,
                              !.k = IF next = "method" THEN k + 1 ELSE k,
                              !.bundle_ids = r.bundle_ids,
                              !.last = input,
                              !.ran = @ \cup {k},
                              !.failed = IF r.raised THEN @ \cup {k} ELSE @,
                              !.complete = IF r.raised THEN @ ELSE @ \cup Readable(k, input)]
    /\ UNCHANGED <<scanVars, det, idxRest>>

\* return bundle_ids
IndexReturn ==
    /\ idx.state = "return"
    /\ idx' = [idx EXCEPT !.state = "returned"]
    /\ UNCHANGED <<scanVars, det, idxRest>>

(***************************************************************************)
(* infer_app_name.                                                         *)
(***************************************************************************)
\* str.upper() on one character.
UpperChar(c) ==
    IF \E i \in 1..Len(LowerCase) : LowerCase[i] = c
    THEN UpperCase[CHOOSE i \in 1..Len(LowerCase) : LowerCase[i] = c]
    ELSE c

\* [a-z]
IsLower(c) == \E i \in 1..Len(LowerCase) : LowerCase[i] = c

\* [A-Z]
IsUpper(c) == \E i \in 1..Len(UpperCase) : UpperCase[i] = c

IsCased(c) == IsLower(c) \/ IsUpper(c)

\* re.sub(r'([a-z])([A-Z])', r'\1 \2', name): the matches are taken from
\* left to right and do not overlap.
RECURSIVE CamelSpaces(_)
CamelSpaces(s) ==
    IF Len(s) < 2 THEN s
    ELSE IF IsLower(s[1]) /\ IsUpper(s[2])
         THEN <<s[1], " ", s[2]>> \o CamelSpaces(SubSeq(s, 3, Len(s)))
         ELSE <<s[1]>> \o CamelSpaces(Tail(s))

\* str.replace(old, new) for single characters.
Replace(s, old, new) == [i \in 1..Len(s) |-> IF s[i] = old THEN new ELSE s[i]]

\* Words capitalised, the case of their other letters kept.
TitleKeepingCase(s) ==
    [i \in 1..Len(s) |->
        IF IsCased(s[i]) /\ ~ (i > 1 /\ IsCased(s[i - 1])) THEN UpperChar(s[i]) ELSE s[i]]

\* str.title(): a cased character is upper-cased when the character before
\* it is not cased (or there is none), and lower-cased otherwise.
Title(s) ==
    [i \in 1..Len(s) |->
        IF IsCased(s[i])
        THEN IF i > 1 /\ IsCased(s[i - 1]) THEN LowerChar(s[i]) ELSE UpperChar(s[i])
        ELSE s[i]]

UnknownApp == <<"U", "n", "k", "n", "o", "w", "n", " ", "A", "p", "p">>

infer_app_name(bundle_id) ==
    IF bundle_id = <<>> THEN UnknownApp
    ELSE LET parts == Split(bundle_id)
             name == parts[Len(parts)]
         IN  Title(Replace(Replace(CamelSpaces(name), "-", " "), "_", " "))

\* Inputs: the strings of the scenarios and every short string over a few
\* characters.
MaxNameLen == 3

MyCoolApp == <<"M", "y", "C", "o", "o", "l", "A", "p", "p">>

ComExampleMyApp == <<"c", "o", "m", ".", "e", "x", "a", "m", "p", "l", "e", ".", "M", "y", "A", "p", "p">>

NameAlphabet == {"a", "B", ".", "-", "_", "1"}

NameInputs ==
    {MyCoolApp, ComExampleMyApp}
        \cup UNION {[1..n -> NameAlphabet] : n \in 0..MaxNameLen}

(***************************************************************************)
(* One call of infer_app_name: nam.state is "idle", "called", "returned".  *)
(***************************************************************************)
NamIdle == [state |-> "idle", bundle_id |-> <<>>, result |-> <<>>]

NameCall(bundle_id) ==
    /\ nam.state = "idle"
    /\ nam' = [state |-> "called", bundle_id |-> bundle_id, result |-> <<>>]
    /\ UNCHANGED <<scanVars, det, namRest>>

NameReturn ==
    /\ nam.state = "called"
    /\ nam' = [nam EXCEPT !.state = "returned", !.result = infer_app_name(nam.bundle_id)]
    /\ UNCHANGED <<scanVars, det, namRest>>

(***************************************************************************)
(* get_directory_size in full: the du call, then the walk.  The three      *)
(* source files each hold a copy; the copies of app.py and web.py catch    *)
(* everything (except:), the copy of mac.py catches TimeoutExpired,        *)
(* ValueError, IndexError and FileNotFoundError around the du call and     *)
(* PermissionError and OSError around the walk.                            *)
(*                                                                         *)
(* du is what subprocess.run does: "ok" (exit status 0, the first word of  *)
(* stdout is the number kb), "nonzero", "unparsable" (int() raises         *)
(* ValueError), "empty" (split()[0] raises IndexError), "timeout",         *)
(* "absent" (FileNotFoundError), "oserror" (another OSError: du cannot be  *)
(* executed, or no process can be created).                                *)
(* A path is a file or a directory; its entries are what rglob('*')        *)
(* yields, "walk_error" standing for an OSError raised by rglob itself.    *)
(***************************************************************************)
Copies == {"app", "web", "mac"}

DuCaught(copy) ==
    IF copy = "mac" THEN {"unparsable", "empty", "timeout", "absent"}
    ELSE {"unparsable", "empty", "timeout", "absent", "oserror"}

Returns(value) == [outcome |-> "return", value |-> value]

Propagates == [outcome |-> "raise", value |-> 0]

FallsBack == [outcome |-> "fallback", value |-> 0]

\* The first try statement.
DuCall(copy, du) ==
    IF du.outcome = "ok" THEN Returns(du.kb * KiB)
    ELSE IF du.outcome = "nonzero" THEN FallsBack
    ELSE IF du.outcome \in DuCaught(copy) THEN FallsBack
    ELSE Propagates

\* for entry in path_obj.rglob('*'): the inner try skips an entry whose
\* is_file() or stat() raises; an error of rglob itself ends the loop in
\* the outer except.
RECURSIVE Walk(_, _, _)
Walk(entries, i, total_size) ==
    IF i > Len(entries) THEN total_size
    ELSE IF entries[i].kind = "walk_error" THEN total_size
    ELSE IF entries[i].raises = "no" /\ entries[i].kind = "file"
         THEN Walk(entries, i + 1, total_size + entries[i].size)
         ELSE Walk(entries, i + 1, total_size)

\* The second try statement: every exception the walk meets is an OSError,
\* which each copy catches.
FallbackWalk(path) ==
    IF path.raises = "kind" THEN 0
    ELSE IF path.kind = "file"
         THEN IF path.raises = "stat" THEN 0 ELSE path.size
         ELSE Walk(path.entries, 1, 0)

\* Inputs.
MaxTree == 2

DuOutcomes ==
    {[outcome |-> "ok", kb |-> kb] : kb \in {0, 4, 12}}
        \cup {[outcome |-> o, kb |-> 0] :
                 o \in {"nonzero", "unparsable", "empty", "timeout", "absent", "oserror"}}

TreeEntry(kind, raises, size) == [kind |-> kind, raises |-> raises, size |-> size]

TreeEntries ==
    {TreeEntry("file", "no", 700), TreeEntry("file", "no", 325),
     TreeEntry("file", "stat", 700), TreeEntry("file", "kind", 700),
     TreeEntry("dir", "no", 0), TreeEntry("walk_error", "no", 0)}

PathInput(kind, raises, size, entries) ==
    [kind |-> kind, raises |-> raises, size |-> size, entries |-> entries]

PathInputs ==
    {PathInput("file", raises, 700, <<>>) : raises \in {"no", "kind", "stat"}}
        \cup {PathInput("dir", raises, 0, <<>>) : raises \in {"kind"}}
        \cup {PathInput("dir", "no", 0, entries) :
                 entries \in UNION {[1..n -> TreeEntries] : n \in 0..MaxTree}}

(***************************************************************************)
(* One call of get_directory_size: dsz.state is "idle", "du" (before the   *)
(* du call), "walk" (before the fallback), "returned" or "raised".         *)
(***************************************************************************)
DszIdle ==
    [state |-> "idle", copy |-> "none", du |-> [outcome |-> "none", kb |-> 0],
     path |-> PathInput("none", "no", 0, <<>>), result |-> 0]

SizeCall(copy, du, path) ==
    /\ dsz.state = "idle"
    /\ dsz' = [state |-> "du", copy |-> copy, du |-> du, path |-> path, result |-> 0]
    /\ UNCHANGED <<scanVars, det, dszRest>>

\* subprocess.run(['du', '-sk', path], ...) and its result.
SizeDu ==
    /\ dsz.state = "du"
    /\ LET r == DuCall(dsz.copy, dsz.du)
       IN  dsz' = [dsz EXCEPT
                      !.state = CASE r.outcome = "return"   -> "returned"
                                  [] r.outcome = "fallback" -> "walk"
                                  [] r.outcome = "raise"    -> "raised",
                      !.result = r.value]
    /\ UNCHANGED <<scanVars, det, dszRest>>

\* The fallback and return total_size.
SizeWalk ==
    /\ dsz.state = "walk"
    /\ dsz' = [dsz EXCEPT !.state = "returned", !.result = FallbackWalk(dsz.path)]
    /\ UNCHANGED <<scanVars, det, dszRest>>

(***************************************************************************)
(* clean_leftovers.  The request names ids; the handler walks the current  *)
(* leftover_results and deletes the path of each item whose id is named.   *)
(* What deleting one path does is an input: "removed" (rmtree or unlink    *)
(* succeeded), "denied" (PermissionError), "error" (another exception),    *)
(* "vanished" (the path is neither a directory nor a file any more).       *)
(***************************************************************************)
\* The handler taking an item when it is named or selected.
RequestedOrSelected(item, ids_to_clean) == item.id \in ids_to_clean \/ item.selected

\* if item.id in ids_to_clean
Requested(item, ids_to_clean) == item.id \in ids_to_clean

DeleteOutcomes == {"removed", "denied", "error", "vanished"}

\* path.is_dir() / path.is_file(): plists are files, the rest are folders.
IsDirItem(item) == item.category \notin {"Preferences", "Launch Agents"}

\* The entry appended to results after the try statement.
CleanReport(item, outcome) ==
    [id |-> item.id,
     success |-> outcome = "removed",
     message |-> CASE outcome = "removed" ->
                          IF IsDirItem(item) THEN "Deleted folder" ELSE "Deleted file"
                   [] outcome = "denied"   -> "Permission denied"
                   [] outcome = "error"    -> "str(e)"
                   [] outcome = "vanished" -> ""]

\* Inputs: the ids a request names, among those of the listed items and one
\* that no item has.
MaxIds == 2

UnknownId == <<"c", "a", "c", "h", "e", "_", "g", "o", "n", "e">>

RequestIds ==
    {ids \in SUBSET ({leftover_results[j].id : j \in 1..Len(leftover_results)}
                        \cup {UnknownId}) : Cardinality(ids) <= MaxIds}

(***************************************************************************)
(* One call of clean_leftovers: cln.state is "idle", "loop" (before item   *)
(* cln.k of cln.list, the list the loop iterates), "returned".             *)
(* cln.removed holds the paths removed, cln.results the report.            *)
(***************************************************************************)
ClnIdle ==
    [state |-> "idle", ids_to_clean |-> {}, list |-> <<>>, k |-> 0,
     results |-> <<>>, removed |-> {}]

\* data = request.json; ids_to_clean = data.get('ids', [])
CleanRequest(ids) ==
    /\ cln.state = "idle"
    /\ cln' = [state |-> "loop", ids_to_clean |-> ids, list |-> leftover_results,
               k |-> 1, results |-> <<>>, removed |-> {}]
    /\ UNCHANGED <<scanVars, det, clnRest>>

\* An item whose id is not named.
CleanSkip ==
    /\ cln.state = "loop"
    /\ cln.k <= Len(cln.list)
    /\ ~ Requested(cln.list[cln.k], cln.ids_to_clean)
    /\ cln' = [cln EXCEPT !.k = @ + 1]
    /\ UNCHANGED <<scanVars, det, clnRest>>

\* An item whose id is named: the try statement and results.append.
CleanDelete(outcome) ==
    /\ cln.state = "loop"
    /\ cln.k <= Len(cln.list)
    /\ Requested(cln.list[cln.k], cln.ids_to_clean)
    /\ LET item == cln.list[cln.k]
       IN  cln' = [cln EXCEPT
                      !.k = @ + 1,
                      !.results = Append(@, CleanReport(item, outcome)),
                      !.removed = IF outcome = "removed" THEN @ \cup {item.path} ELSE @]
    /\ UNCHANGED <<scanVars, det, clnRest>>

\* return jsonify({"results": results})
CleanReturn ==
    /\ cln.state = "loop"
    /\ cln.k > Len(cln.list)
    /\ cln' = [cln EXCEPT !.state = "returned"]
    /\ UNCHANGED <<scanVars, det, clnRest>>

(***************************************************************************)
(* One ownership test on one folder name and one index, as the detectors   *)
(* run it: the name is lower-cased by the detector, the identifiers by     *)
(* get_installed_bundle_ids.  own.state is "idle" or "returned".           *)
(***************************************************************************)
\* Inputs: folder names and CFBundleIdentifier values are the short strings
\* over a lower-case letter, an upper-case letter and the dot.
MaxOwnLen == 3

OwnAlphabet == {"a", "B", "."}

OwnNames == UNION {[1..n -> OwnAlphabet] : n \in 1..MaxOwnLen}

AdotB == <<"a", ".", "B">>

\* No application, one application, or one application beside a.B.
OwnInstalled == {{}} \cup {{b} : b \in OwnNames} \cup {{b, AdotB} : b \in OwnNames}

OwnTests == {"group_container", "app_support", "logs"}

OwnIdle == [state |-> "idle", test |-> "", name |-> <<>>, installed_ids |-> {}, owned |-> FALSE]

\* is_orphan, negated, after the loop over installed_ids.
OwnedVerdict(test, fname, installed_ids) ==
    CASE test = "group_container" ->
             GroupContainerOwned(Lower(fname), BundlePortion(fname), installed_ids)
      [] test = "app_support" -> AppSupportOwned(Lower(fname), installed_ids)
      [] test = "logs" -> LogsOwned(Lower(fname), installed_ids)

OwnCall(test, fname, apps) ==
    /\ own.state = "idle"
    /\ LET installed_ids == get_installed_bundle_ids(apps)
       IN  own' = [state |-> "returned", test |-> test, name |-> fname,
                   installed_ids |-> installed_ids,
                   owned |-> OwnedVerdict(test, fname, installed_ids)]
    /\ UNCHANGED <<scanVars, det, ownRest>>

OwnNext ==
    /\ own.state = "returned"
    /\ own' = OwnIdle
    /\ UNCHANGED <<scanVars, det, ownRest>>

(***************************************************************************)
(* The cache scan job: start_scan and the thread do_scan it spawns.  The   *)
(* fields of cs are the module-level globals scan_in_progress,             *)
(* scan_complete, scan_results, scan_progress, and reqs, the start         *)
(* requests.  pc of a request: "new"; "rejected"; "h_reset" after the flag *)
(* test; "t_begin"; "t_location" before location i of the fixed list;      *)
(* "t_containers" before the container caches; "t_iter" inside the loop    *)
(* over ~/Library/Containers; "t_finish", "t_clear", "t_complete"; "done"; *)
(* "died" when an exception ended the thread.                              *)
(***************************************************************************)
\* The list get_cache_locations() builds is fixed; the model scans its
\* first MaxLocations entries.
MaxLocations == 2

get_cache_locations ==
    SubSeq(<<"user_caches", "system_caches", "xcode_derived", "xcode_archives">>,
           1, MaxLocations)

\* What scanning one location meets: path.exists() is false, true, or raises
\* (the parent cannot be searched); the size get_directory_size returns.
LocationOutcomes ==
    {[exists |-> "no", size |-> 0], [exists |-> "raises", size |-> 0],
     [exists |-> "yes", size |-> 0], [exists |-> "yes", size |-> KiB]}

\* ~/Library/Containers: exists() is false; the directory can be listed;
\* iterdir() raises; exists() raises.
ContainersOutcomes == {"missing", "ok", "unreadable", "denied"}

\* A container and its Data/Library/Caches: absent, a directory, a file, or
\* exists() raises on it.
ContainerCaches ==
    {[name |-> n, cache |-> c, size |-> s] :
        n \in {ComOldTool, WidgetName},
        c \in {"absent", "dir", "file", "denied"},
        s \in {0, KiB}}

\* container.name.split('.')[-1] if '.' in container.name else container.name
AppNameOf(fname) == LET parts == Split(fname) IN parts[Len(parts)]

InitialScanProgress ==
    [current |-> 0, total |-> 0, percent |-> 0, current_location |-> "",
     found_count |-> 0, total_size |-> 0]

NewScanRequest == [pc |-> "new", response |-> "none", i |-> 0, seen |-> 0, results |-> <<>>]

CsIdle ==
    [scan_in_progress |-> FALSE, scan_complete |-> FALSE, scan_results |-> <<>>,
     scan_progress |-> InitialScanProgress,
     reqs |-> [i \in 1..MaxRequests |-> NewScanRequest]]

ScanThreadPcs == {"t_begin", "t_location", "t_containers", "t_iter", "t_finish", "t_clear", "t_complete"}

\* POST /api/scan: if scan_in_progress: return "already_scanning"
ScanRequest(i) ==
    /\ cs.reqs[i].pc = "new"
    /\ cs' = IF cs.scan_in_progress
             THEN [cs EXCEPT !.reqs[i].pc = "rejected",
                             !.reqs[i].response = "already_scanning"]
             ELSE [cs EXCEPT !.reqs[i].pc = "h_reset"]
    /\ UNCHANGED <<scanVars, det, csRest>>

\* The four resets, thread.start() and the "started" response.
ScanReset(i) ==
    /\ cs.reqs[i].pc = "h_reset"
    /\ cs' = [cs EXCEPT !.scan_in_progress = TRUE,
                        !.scan_complete = FALSE,
                        !.scan_results = <<>>,
                        !.scan_progress = InitialScanProgress,
                        !.reqs[i].pc = "t_begin",
                        !.reqs[i].response = "started"]
    /\ UNCHANGED <<scanVars, det, csRest>>

\* locations = get_cache_locations(); results = []; scan_progress["total"]
ScanBegin(i) ==
    /\ cs.reqs[i].pc = "t_begin"
    /\ cs' = [cs EXCEPT !.scan_progress.total = Len(get_cache_locations) + 1,
                        !.reqs[i].results = <<>>,
                        !.reqs[i].i = 1,
                        !.reqs[i].pc = IF get_cache_locations = <<>>
                                       THEN "t_containers" ELSE "t_location"]
    /\ UNCHANGED <<scanVars, det, csRest>>

\* One pass of "for i, loc in enumerate(locations)".
ScanLocation(i, o) ==
    /\ cs.reqs[i].pc = "t_location"
    /\ LET n == Len(get_cache_locations)
           k == cs.reqs[i].i
           progress == [cs.scan_progress EXCEPT
                           !.current = k,
                           !.current_location = get_cache_locations[k],
                           !.percent = ((k - 1) * 100) \div (n + 1)]
           results == IF o.exists = "yes" /\ o.size > 0
                      THEN Append(cs.reqs[i].results,
                                  [id |-> get_cache_locations[k], size |-> o.size])
                      ELSE cs.reqs[i].results
       IN  cs' = IF o.exists = "raises"
                 THEN [cs EXCEPT !.scan_progress = progress, !.reqs[i].pc = "died"]
                 ELSE [cs EXCEPT
                          !.scan_progress =
                              IF o.exists = "yes" /\ o.size > 0
                              THEN [progress EXCEPT !.found_count = Len(results),
                                                    !.total_size = SumSizes(results)]
                              ELSE progress,
                          !.reqs[i].results = results,
                          !.reqs[i].i = k + 1,
                          !.reqs[i].pc = IF k < n THEN "t_location" ELSE "t_containers"]
    /\ UNCHANGED <<scanVars, det, csRest>>

\* current_location = "Container Apps"; containers_path.exists(); iterdir()
ScanContainers(i, status) ==
    /\ cs.reqs[i].pc = "t_containers"
    /\ cs' = [cs EXCEPT !.scan_progress.current_location = "Container Apps",
                        !.reqs[i].pc = CASE status = "missing" -> "t_finish"
                                         [] status = "ok" -> "t_iter"
                                         [] OTHER -> "died"]
    /\ UNCHANGED <<scanVars, det, csRest>>

\* One pass of "for container in containers_path.iterdir()".
ScanContainerVisit(i, c) ==
    /\ cs.reqs[i].pc = "t_iter"
    /\ cs.reqs[i].seen < MaxListing
    /\ LET results == Append(cs.reqs[i].results,
                             [id |-> <<"c", "o", "n", "t", "a", "i", "n", "e", "r", "_">>
                                         \o AppNameOf(c.name),
                              size |-> c.size])
       IN  cs' = CASE c.cache = "denied" ->
                          [cs EXCEPT !.reqs[i].pc = "died"]
                   [] c.cache = "dir" /\ c.size > 0 ->
                          [cs EXCEPT !.reqs[i].results = results,
                                     !.reqs[i].seen = @ + 1,
                                     !.scan_progress.found_count = Len(results),
                                     !.scan_progress.total_size = SumSizes(results)]
                   [] OTHER -> [cs EXCEPT !.reqs[i].seen = @ + 1]
    /\ UNCHANGED <<scanVars, det, csRest>>

\* The directory has no more entries.
ScanContainersExhausted(i) ==
    /\ cs.reqs[i].pc = "t_iter"
    /\ cs' = [cs EXCEPT !.reqs[i].pc = "t_finish"]
    /\ UNCHANGED <<scanVars, det, csRest>>

\* percent = 100; current_location = "Complete"; results.sort(...);
\* scan_results = results
ScanFinish(i) ==
    /\ cs.reqs[i].pc = "t_finish"
    /\ LET results == SortBySize(cs.reqs[i].results)
       IN  cs' = [cs EXCEPT !.scan_progress.percent = 100,
                            !.scan_progress.current_location = "Complete",
                            !.scan_results = results,
                            !.reqs[i].results = results,
                            !.reqs[i].pc = "t_clear"]
    /\ UNCHANGED <<scanVars, det, csRest>>

\* scan_in_progress = False
ScanClear(i) ==
    /\ cs.reqs[i].pc = "t_clear"
    /\ cs' = [cs EXCEPT !.scan_in_progress = FALSE, !.reqs[i].pc = "t_complete"]
    /\ UNCHANGED <<scanVars, det, csRest>>

\* scan_complete = True
ScanComplete(i) ==
    /\ cs.reqs[i].pc = "t_complete"
    /\ cs' = [cs EXCEPT !.scan_complete = TRUE, !.reqs[i].pc = "done"]
    /\ UNCHANGED <<scanVars, det, csRest>>

(***************************************************************************)
(* The interactive command line of src/mac.py: main's loop, clear_selected *)
(* and clear_location.                                                     *)
(***************************************************************************)
Digits == <<"0", "1", "2", "3", "4", "5", "6", "7", "8", "9">>

\* str.isdigit()
IsDigitStr(s) ==
    s # <<>> /\ \A i \in 1..Len(s) : \E d \in 1..Len(Digits) : Digits[d] = s[i]

\* The value of a string of digits.
RECURSIVE DigitsValue(_)
DigitsValue(s) ==
    IF s = <<>> THEN 0
    ELSE 10 * DigitsValue(SubSeq(s, 1, Len(s) - 1))
            + (CHOOSE d \in 1..Len(Digits) : Digits[d] = s[Len(s)]) - 1

\* int(s): surrounding whitespace is accepted; ok is FALSE for ValueError.
IntOf(s) ==
    LET t == Strip(s)
    IN  IF IsDigitStr(t) THEN [ok |-> TRUE, value |-> DigitsValue(t)]
        ELSE [ok |-> FALSE, value |-> 0]

\* Positions of "-" in s.
DashesOf(s) == {i \in 1..Len(s) : s[i] = "-"}

\* s.split('-')
RECURSIVE SplitDash(_)
SplitDash(s) ==
    IF DashesOf(s) = {} THEN <<s>>
    ELSE LET i == Min(DashesOf(s))
         IN  <<SubSeq(s, 1, i - 1)>> \o SplitDash(SubSeq(s, i + 1, Len(s)))

\* valid_locations[i].selected = not valid_locations[i].selected for the
\* positions first..last.
Toggle(selected, first, last) ==
    [i \in 1..Len(selected) |->
        IF first <= i /\ i <= last THEN ~ selected[i] ELSE selected[i]]

\* The body of main's loop after Prompt.ask returned: the selected flags it
\* leaves and where main goes next ("menu", "confirm" or "quit").
Dispatch(raw, selected) ==
    LET choice == Lower(Strip(raw))
        n      == Len(selected)
        stay   == [next |-> "menu", selected |-> selected]
    IN  IF choice = <<"q">> THEN [next |-> "quit", selected |-> selected]
        ELSE IF choice = <<"a">>
        THEN [next |-> "menu", selected |-> [i \in 1..n |-> TRUE]]
        ELSE IF choice = <<"n">>
        THEN [next |-> "menu", selected |-> [i \in 1..n |-> FALSE]]
        ELSE IF choice = <<"d">>
        THEN IF \A i \in 1..n : ~ selected[i] THEN stay
             ELSE [next |-> "confirm", selected |-> selected]
        ELSE IF IsDigitStr(choice)
        THEN LET num == DigitsValue(choice)
             IN  IF 1 <= num /\ num <= n
                 THEN [next |-> "menu", selected |-> Toggle(selected, num, num)]
                 ELSE stay
        ELSE IF DashesOf(choice) # {}
        THEN LET parts == SplitDash(choice)
             IN  IF Len(parts) # 2 THEN stay
                 ELSE LET start == IntOf(parts[1])
                          end   == IntOf(parts[2])
                      IN  IF /\ start.ok /\ end.ok
                             /\ 1 <= start.value /\ start.value <= end.value
                             /\ end.value <= n
                          THEN [next |-> "menu",
                                selected |-> Toggle(selected, start.value, end.value)]
                          ELSE stay
        ELSE stay

\* Confirm.ask taken for a yes unless the user interrupts.
ConfirmedUnlessInterrupted(answer) == answer # "interrupt"

\* if Confirm.ask("Are you sure you want to proceed?", default=False)
Confirmed(answer) == answer = "yes"

\* What every location holds when the menu is first shown.
Entries == {"x", "y"}

\* What clear_location meets.  kind: "dir" (stuck: the entries whose rmtree
\* or unlink raises), "unlistable" (iterdir() raises PermissionError),
\* "file", "file_denied" (unlink raises PermissionError), "missing",
\* "denied" (is_dir() raises PermissionError).
ClearOutcomes ==
    {[kind |-> "dir", stuck |-> S] : S \in SUBSET Entries}
        \cup {[kind |-> k, stuck |-> {}] :
                 k \in {"unlistable", "file", "file_denied", "missing", "denied"}}

\* clear_location(loc): its result, the entries left below the path and
\* whether the path itself is still there.
clear_location(o, entries) ==
    CASE o.kind = "dir" ->
             [success |-> TRUE, message |-> "Cleared", left |-> o.stuck, kept |-> TRUE]
      [] o.kind = "file" ->
             [success |-> TRUE, message |-> "Deleted", left |-> {}, kept |-> FALSE]
      [] o.kind = "missing" ->
             [success |-> FALSE, message |-> "Not found", left |-> {}, kept |-> FALSE]
      [] OTHER ->
             [success |-> FALSE, message |-> "Permission denied",
              left |-> entries, kept |-> TRUE]

\* selected = [loc for loc in locations if loc.selected], as positions.
RECURSIVE SelectedOf(_, _)
SelectedOf(selected, i) ==
    IF i > Len(selected) THEN <<>>
    ELSE (IF selected[i] THEN <<i>> ELSE <<>>) \o SelectedOf(selected, i + 1)

\* Inputs: what the user types at the prompt.
MaxChoiceLen == 3

ChoiceAlphabet == {"q", "Q", "a", "n", "d", "1", "2", "3", "-", " "}

Choices == UNION {[1..n -> ChoiceAlphabet] : n \in 0..MaxChoiceLen}

\* What the user answers to Confirm.ask, when not interrupting.
Answers == {"yes", "no"}

(***************************************************************************)
(* One run of main.  cli.pc: "idle"; "menu" at Prompt.ask; "read" with the *)
(* text typed in cli.choice; "confirm" at Confirm.ask; "clearing" inside   *)
(* the loop of clear_selected, before cli.targets[cli.k]; "exited".        *)
(* cli.left[i] are the entries below location i, cli.kept[i] whether its   *)
(* path exists, cli.reports what clear_location met and returned.          *)
(***************************************************************************)
CliIdle ==
    [pc |-> "idle", selected |-> <<>>, choice |-> <<>>, answer |-> "none",
     targets |-> <<>>, k |-> 0, left |-> <<>>, kept |-> <<>>, reports |-> <<>>]

\* get_cache_locations, scan_locations: the locations that hold data, each
\* pre-selected.
CliMain ==
    /\ cli.pc = "idle"
    /\ cli' = [cli EXCEPT !.pc = "menu",
                          !.selected = [i \in 1..MaxLocations |-> TRUE],
                          !.left = [i \in 1..MaxLocations |-> Entries],
                          !.kept = [i \in 1..MaxLocations |-> TRUE]]
    /\ UNCHANGED <<scanVars, det, cliRest>>

\* choice = Prompt.ask(...)
CliPrompt(raw) ==
    /\ cli.pc = "menu"
    /\ cli' = [cli EXCEPT !.pc = "read", !.choice = raw]
    /\ UNCHANGED <<scanVars, det, cliRest>>

\* KeyboardInterrupt at Prompt.ask (caught in the loop) or at Confirm.ask
\* (caught around main()).
CliInterrupt ==
    /\ cli.pc \in {"menu", "confirm"}
    /\ cli' = [cli EXCEPT !.pc = "exited",
                          !.answer = IF cli.pc = "confirm" THEN "interrupt" ELSE @]
    /\ UNCHANGED <<scanVars, det, cliRest>>

\* choice.strip().lower() and the if/elif chain; the text typed is not
\* looked at again.
CliDispatch ==
    /\ cli.pc = "read"
    /\ LET r == Dispatch(cli.choice, cli.selected)
       IN  cli' = [cli EXCEPT !.selected = r.selected,
                              !.choice = <<>>,
                              !.pc = IF r.next = "quit" THEN "exited" ELSE r.next]
    /\ UNCHANGED <<scanVars, det, cliRest>>

\* Confirm.ask answered; on yes, clear_selected builds its list.
CliConfirm(answer) ==
    /\ cli.pc = "confirm"
    /\ cli' = IF Confirmed(answer)
              THEN [cli EXCEPT !.pc = "clearing", !.answer = answer,
                               !.targets = SelectedOf(cli.selected, 1), !.k = 1]
              ELSE [cli EXCEPT !.pc = "menu", !.answer = answer]
    /\ UNCHANGED <<scanVars, det, cliRest>>

\* One pass of "for loc in selected" in clear_selected.
CliClear(o) ==
    /\ cli.pc = "clearing"
    /\ cli.k <= Len(cli.targets)
    /\ LET loc == cli.targets[cli.k]
           r   == clear_location(o, cli.left[loc])
       IN  cli' = [cli EXCEPT !.k = @ + 1,
                              !.left[loc] = r.left,
                              !.kept[loc] = r.kept,
                              !.reports = Append(@, [loc |-> loc, met |-> o,
                                                     success |-> r.success,
                                                     message |-> r.message])]
    /\ UNCHANGED <<scanVars, det, cliRest>>

\* clear_selected returns; input("Press Enter to exit..."); break
CliExit ==
    /\ cli.pc = "clearing"
    /\ cli.k > Len(cli.targets)
    /\ cli' = [cli EXCEPT !.pc = "exited"]
    /\ UNCHANGED <<scanVars, det, cliRest>>

(***************************************************************************)
(* One detector run on one filesystem state with two indexes, a \subseteq  *)
(* b, entry by entry: mono.with_a and mono.with_b are the two runs, each   *)
(* with its orphans and its place ("loop", "left", "raised", "returned").  *)
(***************************************************************************)
MonoIdle ==
    [name |-> "none", dirs |-> <<>>, k |-> 0, seen |-> 0, state |-> "idle",
     with_a |-> [installed_ids |-> {}, orphans |-> <<>>, state |-> "idle"],
     with_b |-> [installed_ids |-> {}, orphans |-> <<>>, state |-> "idle"]]

IndexPairs ==
    {pair \in IndexChoices \X IndexChoices : pair[1] \subseteq pair[2]}

\* One run meets the entry: a pass of its loop body if it is in the loop.
RunVisit(run, d, dir, a) ==
    IF run.state # "loop" THEN run
    ELSE LET r == Visit(d, dir, a, run.installed_ids)
         IN  [run EXCEPT !.orphans = @ \o r.items,
                         !.state = IF r.raised THEN "left" ELSE "loop"]

RunEnter(run, status) ==
    IF run.state = "raised" THEN run ELSE [run EXCEPT !.state = EnterDir(status)]

RunLeave(run) == IF run.state = "loop" THEN [run EXCEPT !.state = "left"] ELSE run

MonoBegin(d, pair, status) ==
    /\ mono.state = "idle"
    /\ mono' = [name |-> d, dirs |-> DirsOf(d), k |-> 1, seen |-> 0, state |-> "dir",
                with_a |-> [installed_ids |-> pair[1], orphans |-> <<>>,
                            state |-> EnterDir(status)],
                with_b |-> [installed_ids |-> pair[2], orphans |-> <<>>,
                            state |-> EnterDir(status)]]
    /\ UNCHANGED <<scanVars, det, monoRest>>

\* The directory yields its next entry to both runs.
MonoVisit(a) ==
    /\ mono.state = "dir"
    /\ mono.seen < MaxListing
    /\ "loop" \in {mono.with_a.state, mono.with_b.state}
    /\ mono' = [mono EXCEPT
                   !.seen = @ + 1,
                   !.with_a = RunVisit(@, mono.name, mono.dirs[mono.k], a),
                   !.with_b = RunVisit(@, mono.name, mono.dirs[mono.k], a)]
    /\ UNCHANGED <<scanVars, det, monoRest>>

\* The directory has no more entries.
MonoExhausted ==
    /\ mono.state = "dir"
    /\ "loop" \in {mono.with_a.state, mono.with_b.state}
    /\ mono' = [mono EXCEPT !.with_a = RunLeave(@), !.with_b = RunLeave(@)]
    /\ UNCHANGED <<scanVars, det, monoRest>>

\* Launch Agents: the second directory.
MonoNextDir(status) ==
    /\ mono.state = "dir"
    /\ mono.with_a.state = "left" /\ mono.with_b.state = "left"
    /\ mono.k < Len(mono.dirs)
    /\ mono' = [mono EXCEPT !.k = @ + 1,
                            !.with_a = RunEnter(@, status),
                            !.with_b = RunEnter(@, status)]
    /\ UNCHANGED <<scanVars, det, monoRest>>

\* return orphans, in both runs.
MonoReturn ==
    /\ mono.state = "dir"
    /\ mono.with_a.state = "left" /\ mono.with_b.state = "left"
    /\ mono.k = Len(mono.dirs)
    /\ mono' = [mono EXCEPT !.state = "returned",
                            !.with_a.state = "returned",
                            !.with_b.state = "returned"]
    /\ UNCHANGED <<scanVars, det, monoRest>>

(***************************************************************************)
(* The polling handlers.  poll is the polling request being served: its    *)
(* kind and the response the handler built from the globals it read.       *)
(***************************************************************************)
NoPoll == [kind |-> "none", response |-> <<>>]

\* leftover_scan_status(): the JSON object built from the globals.
leftover_scan_status ==
    [in_progress |-> leftover_scan_in_progress,
     complete |-> leftover_scan_complete,
     count |-> Len(leftover_results),
     current_location |-> leftover_scan_progress.current_location,
     progress |-> leftover_scan_progress]

\* get_leftovers(): the items of leftover_results.
get_leftovers == leftover_results

\* A status handler that, to answer, stores the text it reports.
StatusPollTouching ==
    /\ poll = NoPoll
    /\ poll' = [kind |-> "status", response |-> leftover_scan_status]
    /\ leftover_scan_progress' =
           [leftover_scan_progress EXCEPT !.current_location = "Polled"]
    /\ UNCHANGED <<files, installed, leftover_results, leftover_scan_in_progress,
                   leftover_scan_complete, procs, history, det, pollRest>>

\* GET /api/scan/leftovers/status
StatusPoll ==
    /\ poll = NoPoll
    /\ poll' = [kind |-> "status", response |-> leftover_scan_status]
    /\ UNCHANGED <<scanVars, det, pollRest>>

\* GET /api/leftovers
LeftoversPoll ==
    /\ poll = NoPoll
    /\ poll' = [kind |-> "leftovers", response |-> get_leftovers]
    /\ UNCHANGED <<scanVars, det, pollRest>>

\* The response has been sent.
PollReturn ==
    /\ poll # NoPoll
    /\ poll' = NoPoll
    /\ UNCHANGED <<scanVars, det, pollRest>>

\* Nothing else is running.
ExtIdle ==
    /\ idx = IdxIdle
    /\ poll = NoPoll
    /\ mono = MonoIdle
    /\ nam = NamIdle
    /\ dsz = DszIdle
    /\ cln = ClnIdle
    /\ own = OwnIdle
    /\ cs = CsIdle
    /\ cli = CliIdle

Init ==
    /\ files \in FsChoices
    /\ installed \in InstalledChoices
    /\ leftover_results = <<>>
    /\ leftover_scan_in_progress = FALSE
    /\ leftover_scan_complete = FALSE
    /\ leftover_scan_progress = InitialProgress
    /\ procs = [i \in Procs |-> NewProc]
    /\ history = <<>>
    /\ det = DetIdle
    /\ ExtIdle

Next ==
    \E i \in Procs :
        \/ StartRequest(i)
        \/ HandlerSetInProgress(i)
        \/ HandlerSetComplete(i)
        \/ HandlerSetResults(i)
        \/ HandlerSpawn(i)
        \/ ThreadBegin(i)
        \/ ThreadDetect(i)
        \/ ThreadFinish(i)
        \/ ThreadPublish(i)
        \/ ThreadClear(i)
        \/ ThreadComplete(i)

Spec == Init /\ [][Next]_vars

InitDetect ==
    /\ files = EmptyFs
    /\ installed = {}
    /\ leftover_results = <<>>
    /\ leftover_scan_in_progress = FALSE
    /\ leftover_scan_complete = FALSE
    /\ leftover_scan_progress = InitialProgress
    /\ procs = [i \in Procs |-> NewProc]
    /\ history = <<>>
    /\ det = DetIdle
    /\ ExtIdle

NextDetect ==
    \/ \E d \in Detectors, ids \in IndexChoices, status \in LocationStatus :
           DetectBegin(d, ids, status)
    \/ \E a \in EntriesOf(det.name) : DetectVisit(a)
    \/ DetectExhausted
    \/ \E status \in LocationStatus : DetectNextDir(status)
    \/ DetectReturn

SpecDetect == InitDetect /\ [][NextDetect]_vars

(***************************************************************************)
(* The specification of one call of get_installed_bundle_ids.              *)
(***************************************************************************)
InitIndex == InitDetect

NextIndex ==
    \/ IndexCall
    \/ \E input \in StrategyInputs(idx.k) : IndexStrategy(input)
    \/ IndexReturn

SpecIndex == InitIndex /\ [][NextIndex]_vars

(***************************************************************************)
(* The specification of the scan job with its pollers: start requests,     *)
(* scan threads and polling requests interleave on one filesystem.         *)
(***************************************************************************)
InitPoll ==
    /\ files = Filesystem(AlwaysPopulated \cup {PreferencesDir})
    /\ installed = {}
    /\ leftover_results = <<>>
    /\ leftover_scan_in_progress = FALSE
    /\ leftover_scan_complete = FALSE
    /\ leftover_scan_progress = InitialProgress
    /\ procs = [i \in Procs |-> NewProc]
    /\ history = <<>>
    /\ det = DetIdle
    /\ ExtIdle

\* A polling handler reads the globals and answers without a scan step in
\* between: the handler writes nothing, so a scan step taken while the
\* response is on its way commutes with sending it.
NextPoll ==
    \/ \E i \in Procs : poll = NoPoll /\ StartRequest(i)
    \/ \E i \in Procs : poll = NoPoll /\ HandlerSetInProgress(i)
    \/ \E i \in Procs : poll = NoPoll /\ HandlerSetComplete(i)
    \/ \E i \in Procs : poll = NoPoll /\ HandlerSetResults(i)
    \/ \E i \in Procs : poll = NoPoll /\ HandlerSpawn(i)
    \/ \E i \in Procs : poll = NoPoll /\ ThreadBegin(i)
    \/ \E i \in Procs : poll = NoPoll /\ ThreadDetect(i)
    \/ \E i \in Procs : poll = NoPoll /\ ThreadFinish(i)
    \/ \E i \in Procs : poll = NoPoll /\ ThreadPublish(i)
    \/ \E i \in Procs : poll = NoPoll /\ ThreadClear(i)
    \/ \E i \in Procs : poll = NoPoll /\ ThreadComplete(i)
    \/ StatusPoll
    \/ LeftoversPoll
    \/ PollReturn

SpecPoll == InitPoll /\ [][NextPoll]_vars

(***************************************************************************)
(* The specification of a detector run compared on two indexes.            *)
(***************************************************************************)
InitMono == InitDetect

NextMono ==
    \/ \E d \in Detectors, pair \in IndexPairs, status \in LocationStatus :
           MonoBegin(d, pair, status)
    \/ \E a \in EntriesOf(mono.name) : MonoVisit(a)
    \/ MonoExhausted
    \/ \E status \in LocationStatus : MonoNextDir(status)
    \/ MonoReturn

SpecMono == InitMono /\ [][NextMono]_vars

(***************************************************************************)
(* The specification of one call of infer_app_name.                        *)
(***************************************************************************)
InitName == InitDetect

NextName ==
    \/ \E bundle_id \in NameInputs : NameCall(bundle_id)
    \/ NameReturn

SpecName == InitName /\ [][NextName]_vars

(***************************************************************************)
(* The specification of one call of get_directory_size.                    *)
(***************************************************************************)
InitSize == InitDetect

NextSize ==
    \/ \E copy \in Copies, du \in DuOutcomes, path \in PathInputs :
           SizeCall(copy, du, path)
    \/ SizeDu
    \/ SizeWalk

SpecSize == InitSize /\ [][NextSize]_vars

(***************************************************************************)
(* The specification of one call of clean_leftovers after a scan has       *)
(* published its list.                                                     *)
(***************************************************************************)
\* What the detectors of do_leftover_scan emit, in the order of the steps.
RECURSIVE Collected(_, _, _)
Collected(k, fs, installed_ids) ==
    IF k = 0 THEN <<>>
    ELSE Collected(k - 1, fs, installed_ids)
            \o Detect(ScanSteps[k].detector, fs, installed_ids)

ScanOutput(fs, apps) ==
    SortBySize(Collected(Len(ScanSteps), fs, get_installed_bundle_ids(apps)))

\* The state the first scan leaves when it ends.
AfterScan(fs, apps) ==
    LET results == ScanOutput(fs, apps)
    IN  /\ files = fs
        /\ installed = apps
        /\ leftover_results = results
        /\ leftover_scan_in_progress = FALSE
        /\ leftover_scan_complete = TRUE
        /\ leftover_scan_progress =
               [current |-> Len(ScanSteps) + 1, total |-> 7, percent |-> 100,
                current_location |-> "Complete", found_count |-> Len(results),
                total_size |-> SumSizes(results)]
        /\ procs = [i \in Procs |->
                       IF i = 1
                       THEN [pc |-> "done", k |-> Len(ScanSteps), results |-> results,
                             installed_ids |-> get_installed_bundle_ids(apps),
                             response |-> "started"]
                       ELSE NewProc]
        /\ history = <<results>>

InitClean ==
    /\ \E fs \in FsChoices \ {DeniedFs}, apps \in InstalledChoices : AfterScan(fs, apps)
    /\ det = DetIdle
    /\ ExtIdle

NextClean ==
    \/ \E ids \in RequestIds : CleanRequest(ids)
    \/ CleanSkip
    \/ \E outcome \in DeleteOutcomes : CleanDelete(outcome)
    \/ CleanReturn

SpecClean == InitClean /\ [][NextClean]_vars

(***************************************************************************)
(* The specification of one ownership test.                                *)
(***************************************************************************)
InitOwn == InitDetect

NextOwn ==
    \/ /\ own.state = "idle"
       /\ \E test \in OwnTests, fname \in OwnNames, apps \in OwnInstalled :
              OwnCall(test, fname, apps)
    \/ OwnNext

SpecOwn == InitOwn /\ [][NextOwn]_vars

(***************************************************************************)
(* The specification of the cache scan job.                                *)
(***************************************************************************)
InitCacheScan == InitDetect

NextCacheScan ==
    \E i \in 1..MaxRequests :
        \/ ScanRequest(i)
        \/ ScanReset(i)
        \/ ScanBegin(i)
        \/ \E o \in LocationOutcomes : ScanLocation(i, o)
        \/ \E status \in ContainersOutcomes : ScanContainers(i, status)
        \/ \E c \in ContainerCaches : ScanContainerVisit(i, c)
        \/ ScanContainersExhausted(i)
        \/ ScanFinish(i)
        \/ ScanClear(i)
        \/ ScanComplete(i)

SpecCacheScan == InitCacheScan /\ [][NextCacheScan]_vars

(***************************************************************************)
(* The specification of one run of the command line.                       *)
(***************************************************************************)
InitCli == InitDetect

NextCli ==
    \/ CliMain
    \/ /\ cli.pc = "menu"
       /\ \E raw \in Choices : CliPrompt(raw)
    \/ CliInterrupt
    \/ CliDispatch
    \/ \E answer \in Answers : CliConfirm(answer)
    \/ \E o \in ClearOutcomes : CliClear(o)
    \/ CliExit

SpecCli == InitCli /\ [][NextCli]_vars

(***************************************************************************)
(* Properties.                                                             *)
(***************************************************************************)
PlistDetectors == {"preference", "launch_agent"}

\* The entry is an artifact of detector d's location: a folder, or a file
\* matching *.plist.
IsArtifact(d, a) ==
    IF d \in PlistDetectors
    THEN a.kind = "file" /\ MatchesPlistGlob(a.name)
    ELSE a.kind = "dir"

\* The lower-cased name the detector compares: folder name or .plist stem.
ArtifactName(d, a) ==
    IF d \in PlistDetectors THEN Lower(Stem(a.name)) ELSE Lower(a.name)

\* The size the detector computes for the artifact.
ComputedSize(d, a) ==
    IF d \in PlistDetectors THEN StatSize(a) ELSE get_directory_size(a)

SkipListed(d, lname) ==
    CASE d = "preference"   -> SkipByPrefix(lname, PrefSkipPrefixes)
      [] d = "app_support"  -> SkipByFolder(lname, AppSupportSkipFolders)
      [] d = "launch_agent" -> SkipByPrefix(lname, LaunchAgentSkipPrefixes)
      [] d = "cache"        -> SkipByPrefix(lname, CacheSkipPrefixes)
      [] d = "logs"         -> SkipByFolder(lname, LogsSkipFolders)
      [] OTHER              -> FALSE

OwnedBy(d, a, installed_ids) ==
    CASE d = "container"       -> ContainerOwned(Lower(a.name), installed_ids)
      [] d = "group_container" -> GroupContainerOwned(Lower(a.name), BundlePortion(a.name), installed_ids)
      [] d = "app_support"     -> AppSupportOwned(Lower(a.name), installed_ids)
      [] d = "preference"      -> PreferenceOwned(Lower(Stem(a.name)), installed_ids)
      [] d = "launch_agent"    -> LaunchAgentOwned(Lower(Stem(a.name)), installed_ids)
      [] d = "cache"           -> CacheOwned(Lower(a.name), installed_ids)
      [] d = "logs"            -> LogsOwned(Lower(a.name), installed_ids)

\* The size an artifact must exceed; Launch Agents has no size filter.
MinSizeOf(d) ==
    CASE d = "container"       -> ContainerMinSize
      [] d = "group_container" -> GroupContainerMinSize
      [] d = "app_support"     -> AppSupportMinSize
      [] d = "preference"      -> PreferenceMinSize
      [] d = "launch_agent"    -> -1
      [] d = "cache"           -> CacheMinSize
      [] d = "logs"            -> LogsMinSize

\* The detector whose items carry this category.
DetectorOf(category) ==
    CASE category = "Containers"          -> "container"
      [] category = "Group Containers"    -> "group_container"
      [] category = "Application Support" -> "app_support"
      [] category = "Preferences"         -> "preference"
      [] category = "Launch Agents"       -> "launch_agent"
      [] category = "Caches"              -> "cache"
      [] category = "Logs"                -> "logs"

\* The lower-cased artifact name an item was emitted for.
ItemName(item) ==
    IF DetectorOf(item.category) \in PlistDetectors
    THEN Lower(Stem(item.path.name)) ELSE Lower(item.path.name)

Range(s) == {s[k] : k \in 1..Len(s)}

\* The last pass of the running detector looked at an artifact of its
\* location and did not raise.
Classified ==
    /\ det.state \in {"loop", "left", "returned"}
    /\ det.last # NoEntry
    /\ IsArtifact(det.name, det.last)
    /\ det.last.raises = "no"

\* The item the last pass appended.
LastItem == det.orphans[Len(det.orphans)]

\* The scan threads that have been started and have not finished.
RunningThreads == {i \in Procs : procs[i].pc \in ThreadPcs}

\* C1: at most one leftover scan thread is active at any time, whatever the
\* interleaving of the start requests.
AtMostOneScanThread == Cardinality(RunningThreads) <= 1

\* C1: a start request received while a scan thread is running is answered
\* "already_scanning" (it is never accepted), stated for each step.
StartWhileRunningIsRejected ==
    [][\A i \in Procs :
          (procs[i].pc = "new" /\ procs'[i].pc # "new" /\ RunningThreads # {})
              => procs'[i].response = "already_scanning"]_vars

\* The index a scan thread works with.
ScanIndex == get_installed_bundle_ids(installed)

\* C2: every published result list holds every item that each of the seven
\* detectors (Logs included) emits for the scan's index.
PublishedHoldsAllSevenDetectors ==
    \A k \in 1..Len(history) : \A d \in Detectors :
        Range(Detect(d, files, ScanIndex)) \subseteq Range(history[k])

ExactMatchNeverEmitted ==
    /\ \A item \in Range(det.orphans) :
           /\ ItemName(item) \notin det.installed_ids
           /\ item.category \in
                  {"Containers", "Group Containers", "Application Support",
                   "Preferences", "Launch Agents", "Caches", "Logs"}
    /\ Classified =>
           ( ( \/ ArtifactName(det.name, det.last) \in det.installed_ids
               \/ OwnedBy(det.name, det.last, det.installed_ids) )
             => ~ det.appended )

\* C4 witness: a non-empty folder named as an installed identifier (up to
\* case) was classified and not emitted.
ExactMatchClassified ==
    /\ Classified
    /\ det.last.name = ComAcmeWidget
    /\ ComAcmeWidgetLower \in det.installed_ids
    /\ ComputedSize(det.name, det.last) > CacheMinSize
    /\ ~ det.appended

Alone(d, dir, a, installed_ids) == Visit(d, dir, a, installed_ids).items

\* C6: an exception on one artifact skips only that artifact: every entry of
\* a scanned directory that the detector emits when it is classified on its
\* own is in every published result.
ExceptionSkipsOnlyOneArtifact ==
    \A k \in 1..Len(history) : \A s \in 1..Len(ScanSteps) :
        LET d == ScanSteps[s].detector
        IN  \A n \in 1..Len(DirsOf(d)) :
                LET dir == DirsOf(d)[n]
                IN  \A e \in 1..Len(files[dir].listing) :
                        Range(Alone(d, dir, files[dir].listing[e], ScanIndex))
                            \subseteq Range(history[k])

\* C7: every emitted item has confidence high, medium or low; low items are
\* not selected, high and medium items are.
ConfidenceDecidesSelection ==
    \A item \in Range(det.orphans) :
        /\ item.confidence \in {"high", "medium", "low"}
        /\ item.confidence = "low" => item.selected = FALSE
        /\ item.confidence \in {"high", "medium"} => item.selected = TRUE

\* C7 witness: the Logs detector emitted an item (confidence low).
LowConfidenceItemEmitted ==
    /\ det.name = "logs"
    /\ det.appended
    /\ LastItem.confidence = "low"

\* C8: the published result list is non-increasing in size.
ResultsSortedBySize ==
    \A k \in 1..(Len(leftover_results) - 1) :
        leftover_results[k].size >= leftover_results[k + 1].size

\* C8 witness: a published list whose largest item was found by the last
\* detector, after smaller ones.
LargestFoundLastPublishedFirst ==
    /\ Len(leftover_results) >= 3
    /\ leftover_results[1].category = "Caches"
    /\ leftover_results[1].size > leftover_results[Len(leftover_results)].size

\* C9: the scans of one filesystem state and one set of installed
\* applications publish identical lists, in the same order.
RescanPublishesSameList ==
    \A j, k \in 1..Len(history) : history[j] = history[k]

\* C9 witness: two scans have published, and the list has two items of equal
\* size next to each other.
TwoScansPublishedWithTie ==
    /\ Len(history) >= 2
    /\ \E k \in 1..(Len(history[2]) - 1) : history[2][k].size = history[2][k + 1].size

\* C10: an orphaned Application Support folder of exactly 1024 bytes is not
\* emitted and one of 1025 bytes is; an orphaned Caches folder of exactly
\* 10240 bytes is not emitted and one of 10241 bytes is.
ThresholdsAreStrict ==
    LET a == det.last
        size == get_directory_size(a)
        orphaned == /\ ~ SkipListed(det.name, Lower(a.name))
                    /\ ~ OwnedBy(det.name, a, det.installed_ids)
    IN  (Classified /\ orphaned) =>
            /\ (det.name = "app_support" /\ size = 1024)  => ~ det.appended
            /\ (det.name = "app_support" /\ size = 1025)  => (det.appended /\ LastItem.size = 1025)
            /\ (det.name = "cache"       /\ size = 10240) => ~ det.appended
            /\ (det.name = "cache"       /\ size = 10241) => (det.appended /\ LastItem.size = 10241)

\* C10 witness: an Application Support folder of 1025 bytes was emitted and,
\* in the same run, an orphaned one of 1024 bytes was then passed over.
BoundaryFoldersClassified ==
    /\ det.name = "app_support"
    /\ Classified
    /\ \E item \in Range(det.orphans) : item.size = 1025
    /\ get_directory_size(det.last) = 1024
    /\ ~ SkipListed(det.name, Lower(det.last.name))
    /\ ~ OwnedBy(det.name, det.last, det.installed_ids)
    /\ ~ det.appended

\* C11: the Containers detector emits a non-empty container folder if and
\* only if its lower-cased name is not an element of the index (substring
\* and prefix relations do not count), and the item it emits has confidence
\* "high" and selected = TRUE.
ContainersUseExactEquality ==
    (det.name = "container" /\ Classified /\ get_directory_size(det.last) > 0) =>
        /\ det.appended <=> (Lower(det.last.name) \notin det.installed_ids)
        /\ det.appended =>
               /\ LastItem.path = [dir |-> ContainersDir, name |-> det.last.name]
               /\ LastItem.category = "Containers"
               /\ LastItem.confidence = "high"
               /\ LastItem.selected = TRUE

\* C11 witness: with com.acme.widget and com.old.tool.helper installed, the
\* non-empty container com.old.tool was emitted (high, selected) and the
\* non-empty container com.acme.Widget was then passed over.
ContainerOldToolEmittedWidgetKept ==
    /\ det.name = "container"
    /\ det.installed_ids = {ComAcmeWidgetLower, ComOldToolHelper}
    /\ \E item \in Range(det.orphans) :
           /\ item.path.name = ComOldTool
           /\ item.confidence = "high"
           /\ item.selected = TRUE
    /\ Classified
    /\ Lower(det.last.name) = ComAcmeWidgetLower
    /\ get_directory_size(det.last) > 0
    /\ ~ det.appended

\* C12: building the index never raises and the three strategies are
\* independent: an exception in a strategy is followed by the next strategy
\* (all three have been entered when the function returns), and the set
\* holds, lower-cased, every identifier that a strategy which did not fail
\* could read; only lower-cased identifiers enter it.
IndexStrategiesAreIndependent ==
    /\ idx.failed # {} => idx.state \in {"method", "return", "returned"}
    /\ idx.state \in {"return", "returned"} => idx.ran = {1, 2, 3}
    /\ idx.complete \subseteq idx.bundle_ids
    /\ \A bundle_id \in idx.bundle_ids : bundle_id = Lower(bundle_id)

\* C12 witness: the index was returned after mdfind was missing and
\* /Applications raised; it holds what ~/Applications contributed beside an
\* unreadable manifest.
IndexReturnedAfterTwoFailures ==
    /\ idx.state = "returned"
    /\ idx.failed = {1, 2}
    /\ idx.last.status = "ok"
    /\ \E j \in 1..Len(idx.last.apps) : idx.last.apps[j].manifest = "unreadable"
    /\ idx.bundle_ids = {ComAcmeWidgetLower}

\* C13: every accepted leftover scan runs to completion, whatever step
\* fails; in its finite form: whenever a scan has been accepted and neither
\* a start handler nor a scan thread has a step left to take, the flags are
\* in_progress = FALSE and complete = TRUE.
AcceptedScanEndsComplete ==
    ( /\ \E i \in Procs : procs[i].response = "started"
      /\ \A i \in Procs : procs[i].pc \notin (HandlerPcs \cup ThreadPcs) )
        => (~ leftover_scan_in_progress /\ leftover_scan_complete)

\* C14 as stated: leftover_scan_progress is written only by a step of a
\* scan thread; no request handler writes it.
ProgressWrittenOnlyByScanThread ==
    [][leftover_scan_progress' # leftover_scan_progress =>
          \E i \in Procs : procs'[i] # procs[i] /\ procs[i].pc \in ThreadPcs]_vars

\* C14: leftover_scan_progress is written only by a step of a scan thread
\* or by the reset of an accepted start request; a polling call (status
\* query, result listing) writes neither it nor any other global.
ProgressWrittenByScanThreadOrStartReset ==
    [][/\ leftover_scan_progress' # leftover_scan_progress =>
             \E i \in Procs : /\ procs'[i] # procs[i]
                              /\ procs[i].pc \in ThreadPcs \cup {"h_progress"}
       /\ poll' # poll =>
             /\ leftover_scan_progress' = leftover_scan_progress
             /\ leftover_results' = leftover_results
             /\ leftover_scan_in_progress' = leftover_scan_in_progress
             /\ leftover_scan_complete' = leftover_scan_complete]_vars

\* C14 witness: a status query was answered while a scan was in its fourth
\* step, and the progress it reported is still what the globals hold.
StatusPolledDuringScan ==
    /\ poll.kind = "status"
    /\ poll.response.in_progress
    /\ poll.response.progress.percent = 55
    /\ poll.response.progress.found_count > 0
    /\ leftover_scan_progress = poll.response.progress

\* C15: from the moment an accepted start request has returned until the
\* scan it started publishes its list, the result list is empty and
\* complete is FALSE, and when the request returns the counters found_count
\* and total_size are 0.
NewScanDiscardsPreviousOutcome ==
    \A i \in Procs :
        /\ procs[i].pc \in {"t_begin", "t_detect", "t_finish", "t_publish"} =>
               /\ leftover_results = <<>>
               /\ ~ leftover_scan_complete
        /\ procs[i].pc = "t_begin" =>
               /\ leftover_scan_progress.found_count = 0
               /\ leftover_scan_progress.total_size = 0

\* The list is the whole output of one scan: it holds every item of each
\* detector the scan calls, nothing else, no item twice, largest first.
WholeScanOutput(list) ==
    /\ Range(list) =
           UNION {Range(Detect(ScanSteps[k].detector, files, ScanIndex)) :
                     k \in 1..Len(ScanSteps)}
    /\ Cardinality(Range(list)) = Len(list)
    /\ \A k \in 1..(Len(list) - 1) : list[k].size >= list[k + 1].size

\* C16: under any interleaving of start requests, scan threads and pollers,
\* the published result list, and every list the result-listing query
\* returns, is empty or the whole size-sorted output of one scan.
ListingIsEmptyOrWholeScanOutput ==
    /\ leftover_results = <<>> \/ WholeScanOutput(leftover_results)
    /\ poll.kind = "leftovers" =>
           (poll.response = <<>> \/ WholeScanOutput(poll.response))

\* C16 witness: the listing query returned a non-empty list while a scan
\* thread was in the middle of its detectors with items already found.
ListingPolledDuringScan ==
    /\ poll.kind = "leftovers"
    /\ poll.response # <<>>
    /\ \E i \in Procs : /\ procs[i].pc = "t_detect"
                        /\ procs[i].results # <<>>
                        /\ procs[i].k < Len(ScanSteps)

\* C17: for two indexes A \subseteq B and the same filesystem state, every
\* item a detector emits with index B it also emits with index A.
LargerIndexEmitsNoMore ==
    Range(mono.with_b.orphans) \subseteq Range(mono.with_a.orphans)

\* The part of s after its last dot.
FinalSegment(s) == SubSeq(s, Max(DotsOf(s) \cup {0}) + 1, Len(s))

\* The positions of s followed by a lowercase-to-uppercase boundary.
CaseBoundaries(s) == {i \in 1..(Len(s) - 1) : IsLower(s[i]) /\ IsUpper(s[i + 1])}

\* C18: infer_app_name returns "Unknown App" for the empty input; otherwise
\* its result is the final dot-separated segment with one space inserted at
\* each lowercase-to-uppercase boundary, "-" and "_" turned into spaces,
\* every letter that starts a word upper-cased and every other letter
\* lower-cased; MyCoolApp gives "My Cool App", com.example.MyApp "My App".
InferredNameIsSpacedTitledSegment ==
    nam.state = "returned" =>
        LET seg == FinalSegment(nam.bundle_id)
            at(i) == i + Cardinality({j \in CaseBoundaries(seg) : j < i})
            r == nam.result
        IN  /\ nam.bundle_id = <<>> => r = UnknownApp
            /\ nam.bundle_id = MyCoolApp => r = <<"M", "y", " ", "C", "o", "o", "l", " ", "A", "p", "p">>
            /\ nam.bundle_id = ComExampleMyApp => r = <<"M", "y", " ", "A", "p", "p">>
            /\ nam.bundle_id # <<>> =>
                   /\ Len(r) = Len(seg) + Cardinality(CaseBoundaries(seg))
                   /\ \A i \in 1..Len(seg) :
                          IF seg[i] \in {"-", "_"} THEN r[at(i)] = " "
                          ELSE LowerChar(r[at(i)]) = LowerChar(seg[i])
                   /\ \A j \in CaseBoundaries(seg) : r[at(j) + 1] = " "
                   /\ \A k \in 1..Len(r) :
                          IsCased(r[k]) =>
                              (IsUpper(r[k]) <=> (k = 1 \/ ~ IsCased(r[k - 1])))

\* C18 witness: infer_app_name returned "My App" for com.example.MyApp.
MyAppInferred ==
    /\ nam.state = "returned"
    /\ nam.bundle_id = ComExampleMyApp
    /\ nam.result = <<"M", "y", " ", "A", "p", "p">>

\* The sizes of the files among the entries the walk reaches whose
\* is_file() and stat() succeed.
RECURSIVE SumReadable(_, _)
SumReadable(entries, S) ==
    IF S = {} THEN 0
    ELSE LET i == CHOOSE j \in S : TRUE
         IN  (IF entries[i].kind = "file" /\ entries[i].raises = "no"
              THEN entries[i].size ELSE 0) + SumReadable(entries, S \ {i})

Reached(entries) ==
    {i \in 1..Len(entries) :
        \A j \in 1..i : entries[j].kind # "walk_error"}

\* C19: get_directory_size never raises; when du succeeds it returns the
\* reported kibibytes times 1024; otherwise it returns the size of the file,
\* or the sum of the readable files of the subtree.
DirectorySizeNeverRaises ==
    /\ dsz.state # "raised"
    /\ dsz.state = "returned" =>
           IF dsz.du.outcome = "ok" THEN dsz.result = dsz.du.kb * 1024
           ELSE IF dsz.path.kind = "file"
                THEN dsz.path.raises = "no" => dsz.result = dsz.path.size
                ELSE dsz.path.raises = "no" =>
                         dsz.result = SumReadable(dsz.path.entries, Reached(dsz.path.entries))

\* The items the loop of clean_leftovers has passed.
CleanVisited == {j \in 1..Len(cln.list) : j < cln.k}

CleanMatched == {j \in CleanVisited : cln.list[j].id \in cln.ids_to_clean}

\* C20: clean_leftovers removes only paths of items of the result list whose
\* id the request names, whatever their selected flag; it reports one entry
\* per such item, in list order, successful exactly when the item's path was
\* removed; an id that no item has changes nothing; the handler returns
\* after the last item.
CleanRemovesOnlyRequestedPaths ==
    /\ cln.state # "idle" => cln.list = leftover_results
    /\ \A path \in cln.removed :
           \E j \in CleanMatched : cln.list[j].path = path
    /\ \A j \in CleanVisited \ CleanMatched : cln.list[j].path \notin cln.removed
    /\ Len(cln.results) = Cardinality(CleanMatched)
    /\ \A j \in CleanMatched :
           LET n == Cardinality({m \in CleanMatched : m <= j})
           IN  /\ cln.results[n].id = cln.list[j].id
               /\ cln.results[n].success <=> (cln.list[j].path \in cln.removed)
    /\ cln.state = "returned" => CleanVisited = 1..Len(cln.list)

\* C20 witness: a request naming an id no item has and the id the two
\* Launch Agents items share has returned: one of the two files was
\* removed, the other was not, and each has its report entry.
CleanReturnedTwoReports ==
    /\ cln.state = "returned"
    /\ UnknownId \in cln.ids_to_clean
    /\ Len(cln.results) = 2
    /\ cln.results[1].id = cln.results[2].id
    /\ cln.results[1].success /\ ~ cln.results[2].success
    /\ Cardinality(cln.removed) = 1
    /\ Len(cln.list) > 2

\* Bidirectional substring containment of one name against the index.
Bidirectional(lname, installed_ids) ==
    \E installed_id \in installed_ids :
        IsSubstr(lname, installed_id) \/ IsSubstr(installed_id, lname)

\* The folder name after its team-id segment, computed on the lower-cased
\* name.
SuffixAfterFirstDot(lname) ==
    LET dots == {k \in 1..Len(lname) : lname[k] = "."}
    IN  IF dots = {} THEN lname ELSE SubSeq(lname, Min(dots) + 1, Len(lname))

\* C21: for every folder name and every index, the Group Containers test
\* gives the verdict of bidirectional substring containment applied to the
\* full lower-cased folder name and to its suffix after the first dot.
GroupTestIsBidirectionalOnFullAndSuffix ==
    (own.state = "returned" /\ own.test = "group_container") =>
        (own.owned <=>
            \/ Bidirectional(Lower(own.name), own.installed_ids)
            \/ Bidirectional(SuffixAfterFirstDot(Lower(own.name)), own.installed_ids))

\* C21 witness: a folder with a team-id segment is owned although no
\* installed identifier lies inside its name: its full name lies inside an
\* identifier, a clause the code does not spell out.
GroupOwnedByFullInsideInstalled ==
    /\ own.state = "returned"
    /\ own.test = "group_container"
    /\ own.owned
    /\ \E k \in 1..Len(own.name) : own.name[k] = "."
    /\ ~ \E installed_id \in own.installed_ids : IsSubstr(installed_id, Lower(own.name))
    /\ \E installed_id \in own.installed_ids : IsSubstr(Lower(own.name), installed_id)

\* C27: for every folder name and every index, the Application Support and
\* Logs tests give the verdict of bidirectional substring containment alone,
\* which is the verdict of the Caches and Launch Agents tests.
TokenClauseIsRedundant ==
    (own.state = "returned" /\ own.test \in {"app_support", "logs"}) =>
        /\ own.owned <=> Bidirectional(Lower(own.name), own.installed_ids)
        /\ own.owned <=> CacheOwned(Lower(own.name), own.installed_ids)
        /\ own.owned <=> LaunchAgentOwned(Lower(own.name), own.installed_ids)

\* C27 witness: an Application Support folder named as one token of an
\* installed identifier is owned.
FolderNamedAsTokenOwned ==
    /\ own.state = "returned"
    /\ own.test = "app_support"
    /\ own.owned
    /\ \E installed_id \in own.installed_ids :
           /\ TokenMatch(Lower(own.name), installed_id)
           /\ Lower(own.name) # installed_id

\* A pass of the Launch Agents loop over an orphaned, non-skip-listed .plist
\* file appends an item of that file's size, whatever the size, with
\* confidence "high" and selected.
LaunchAgentPassEmits ==
    (/\ det.name = "launch_agent"
     /\ Classified
     /\ ~ SkipListed("launch_agent", ArtifactName("launch_agent", det.last))
     /\ ~ OwnedBy("launch_agent", det.last, det.installed_ids)) =>
        /\ det.appended
        /\ LastItem.path.name = det.last.name
        /\ LastItem.size = det.last.bytes
        /\ LastItem.confidence = "high"
        /\ LastItem.selected

\* C22: the Launch Agents detector goes through both directories, a failure
\* in one of them never ending the detector before the other was scanned and
\* its items returned; it emits every orphaned, non-skip-listed .plist
\* whatever its size, with confidence "high" and selected.
LaunchAgentsEmitsFromBothDirectories ==
    det.name = "launch_agent" =>
        /\ det.state # "raised"
        /\ det.state = "returned" => det.k = Len(det.dirs)
        /\ LaunchAgentPassEmits

\* C23: whenever the leftover scan is complete, found_count is the number of
\* items of the published list and total_size the sum of their sizes; while
\* a scan thread runs, both are the count and the size sum of the items its
\* finished detectors found.
RunningTotalsAgreeWithResult ==
    /\ leftover_scan_complete =>
           /\ leftover_scan_progress.found_count = leftover_scan_status.count
           /\ leftover_scan_progress.total_size = SumSizes(leftover_results)
    /\ \A i \in RunningThreads :
           /\ leftover_scan_progress.found_count = Len(procs[i].results)
           /\ leftover_scan_progress.total_size = SumSizes(procs[i].results)

\* The prefix of the names that belong to the platform.
ComAppleDot == <<"c", "o", "m", ".", "a", "p", "p", "l", "e", ".">>

\* An entry on the deny-list of its detector is never emitted.
DenyListedNeverEmitted ==
    (det.last # NoEntry /\ SkipListed(det.name, ArtifactName(det.name, det.last)))
        => ~ det.appended

\* C24: in every detector, an artifact whose name is on the detector's
\* deny-list or starts with com.apple. is never emitted, whatever the index
\* and whatever its size.
PlatformArtifactsNeverEmitted ==
    /\ DenyListedNeverEmitted
    /\ (det.last # NoEntry /\ StartsWith(ArtifactName(det.name, det.last), ComAppleDot))
           => ~ det.appended

\* C25: no two items of a published result list have the same id.
ItemIdsAreUnique ==
    \A j, k \in 1..Len(leftover_results) :
        leftover_results[j].id = leftover_results[k].id => j = k

\* C26: no status response reports in_progress and complete both true.
PolledFlagsNeverBothTrue ==
    poll.kind = "status" =>
        ~ (poll.response.in_progress /\ poll.response.complete)

\* C28: a status response with complete = true has percent = 100 and
\* current_location = "Complete"; the percentage never decreases except when
\* a start handler resets it to 0 for a new scan.
CompleteMeansFullPercent ==
    [][ /\ (poll'.kind = "status" /\ poll'.response.complete) =>
               /\ poll'.response.progress.percent = 100
               /\ poll'.response.current_location = "Complete"
        /\ leftover_scan_progress'.percent < leftover_scan_progress.percent =>
               leftover_scan_progress'.percent = 0 ]_vars

\* C29: every accepted cache scan runs to completion, whatever raises inside
\* do_scan; in its finite form: whenever a cache scan has been accepted and
\* neither a start handler nor a scan thread has a step left to take, the
\* flags are scan_in_progress = FALSE and scan_complete = TRUE.
AcceptedCacheScanEndsComplete ==
    ( /\ \E i \in 1..MaxRequests : cs.reqs[i].response = "started"
      /\ \A i \in 1..MaxRequests : cs.reqs[i].pc \notin (ScanThreadPcs \cup {"h_reset"}) )
        => (~ cs.scan_in_progress /\ cs.scan_complete)

\* Nothing is cleared before the user confirms, and after the confirmation
\* clear_location is called for the selected locations, in order, and for
\* no other.
ClearedOnlyWhatWasConfirmed ==
    /\ cli.answer # "yes" =>
           /\ cli.reports = <<>>
           /\ \A i \in 1..Len(cli.left) : cli.left[i] = Entries /\ cli.kept[i]
    /\ cli.reports # <<>> =>
           /\ cli.pc \in {"clearing", "exited"}
           /\ \E i \in 1..Len(cli.selected) : cli.selected[i]
    /\ cli.pc = "clearing" \/ (cli.pc = "exited" /\ cli.answer = "yes") =>
           /\ Len(cli.reports) = (IF cli.pc = "exited" THEN Len(cli.targets) ELSE cli.k - 1)
           /\ \A j \in 1..Len(cli.reports) : cli.reports[j].loc = cli.targets[j]
           /\ \A i \in 1..Len(cli.selected) :
                  cli.selected[i] <=> \E j \in 1..Len(cli.targets) : cli.targets[j] = i
           /\ \A j, m \in 1..Len(cli.targets) : cli.targets[j] = cli.targets[m] => j = m
           /\ \A i \in 1..Len(cli.selected) :
                  (~ \E j \in 1..Len(cli.reports) : cli.reports[j].loc = i)
                      => (cli.left[i] = Entries /\ cli.kept[i])

====
